---- MODULE Spec2Model ----
(***************************************************************************)
(* cryptctl2: key server admission (AutoRetrieve / ManualRetrieve /        *)
(* ReportAlive), peer identity extraction, and the client routines         *)
(* (UnlockFS, AutoOnlineUnlockFS, ManOnlineUnlockFS, ReportAlive,          *)
(* EraseKey).                                                              *)
(*                                                                         *)
(* The packages keyserv and keydb are not part of the source tree at hand; *)
(* the RPC service is modelled from the written specification (sections    *)
(* 3, 4.1 and 4.3).  The client routines and helper.GetCertificatInfo are  *)
(* modelled from their Go source.                                          *)
(***************************************************************************)
EXTENDS Integers, Sequences, FiniteSets, TLC

VARIABLES
    \* ---- key server and its callers
    now,        \* server clock, in seconds
    db,         \* key database: UUID -> Record (only existing records)
    lastResp,   \* the response of the RPC in flight, with the peer it goes to
    overridden, \* UUIDs that were handed out by ManualRetrieve (history)
    raPc,       \* routine.ReportAlive on host H1: "idle", "call", "sleep", "returned"
    raWake,     \* time at which the reporter's sleep ends
    raUUID,     \* the UUID the reporter sends alive messages for
    \* ---- helper.GetCertificatInfo
    state,      \* tls.ConnectionState: [PeerCertificates |-> chain]
    certPc,     \* "handshake" before the call, "done" after it
    certInfo,   \* the pair the function returned
    \* ---- client routines (package routine)
    pc,         \* position of the running routine
    entry,      \* the routine that was invoked
    unlockRec,  \* rec: the keydb.Record at hand
    dev,        \* the block device with the record's UUID, as the kernel has it
    ufs,        \* locals of UnlockFS
    auto,       \* locals of AutoOnlineUnlockFS
    erase,      \* locals of EraseKey
    log,        \* the calls made since the routine was invoked, with their outcome
    result,     \* what the routine returned: "none", "nil", "error"
    clock,      \* time.Now().Unix() on the client
    srvRecord,  \* the server still has the record of the UUID
    progressOut, \* what the loops of the routine have printed
    report,     \* locals of ReportAlive
    \* ---- operator commands on the key server's host (package command)
    cmdNow,     \* time.Now() on the key server's host
    disk,       \* the record file of the UUID in the database directory
    mem,        \* the record of the UUID in the running server's database
    ideal,      \* the record had every update been applied to one copy, in order
    opr,        \* the operator's command: position, locals and what it returned
    delivered,  \* command id -> number of PollCommand answers that carried it
    running,    \* the key server daemon is running
    \* ---- further routines
    man,        \* locals of ManOnlineUnlockFS
    initSrv,    \* InitKeyServer from the (re)start on, and the daemon it starts
    ser         \* the serial file of the CA and the callers of GetNextSerial

srvVars == <<now, db, lastResp, overridden, raPc, raWake, raUUID>>
certVars == <<state, certPc, certInfo>>
cliVars == <<pc, entry, unlockRec, dev, ufs, auto, erase, log, result, clock, srvRecord,
             progressOut, report>>

cmdVars == <<cmdNow, disk, mem, ideal, opr, delivered, running>>
admVars == <<man, initSrv, ser>>
vars == <<srvVars, certVars, cliVars, cmdVars, admVars>>

(***************************************************************************)
(* Program constants                                                       *)
(***************************************************************************)
AUTO_UNLOCK_RETRY_INTERVAL_SEC == 5
REPORT_ALIVE_INTERVAL_SEC == 10

(***************************************************************************)
(* Bounds of the model                                                     *)
(***************************************************************************)
MaxTime == 20      \* the clock stops advancing here
MaxMsgs == 2       \* alive messages kept per host and record
MaxReq == 2        \* UUIDs per request

TimeStep == REPORT_ALIVE_INTERVAL_SEC

Hosts == {"H1", "H2", "H3"}
IPOf(h) == CASE h = "H1" -> "10.0.0.1" [] h = "H2" -> "10.0.0.2" [] OTHER -> "10.0.0.3"
IdentOf(h) == h     \* peer identity: the SAN of the host's client certificate
AllUUIDs == {"a1", "zz"}
ServerPassword == "correct horse battery staple"
Passwords == {ServerPassword, "wrong", ""}

RECURSIVE SeqsUpTo(_, _)
SeqsUpTo(S, n) ==
    IF n = 0 THEN {<<>>}
    ELSE LET shorter == SeqsUpTo(S, n - 1)
         IN shorter \cup {Append(s, x) : s \in {t \in shorter : Len(t) = n - 1}, x \in S}

Requests == SeqsUpTo(AllUUIDs, MaxReq) \ {<<>>}

(***************************************************************************)
(* helper.Contains                                                         *)
(***************************************************************************)
\* mutant: the comparison in the loop is inverted
ContainsOther(list, b) == \E i \in 1..Len(list) : list[i] # b

Contains(list, b) == \E i \in 1..Len(list) : list[i] = b

(***************************************************************************)
(* strconv: decimal text is a sequence of one-character strings            *)
(***************************************************************************)
Digits == <<"0", "1", "2", "3", "4", "5", "6", "7", "8", "9">>

DigitValue(c) == (CHOOSE i \in DOMAIN Digits : Digits[i] = c) - 1

IsDigit(c) == \E i \in DOMAIN Digits : Digits[i] = c

\* strconv.FormatInt(n, 10) and strconv.Itoa(n) for n >= 0
RECURSIVE FormatInt(_)
FormatInt(n) ==
    IF n < 10 THEN <<Digits[n + 1]>> ELSE Append(FormatInt(n \div 10), Digits[(n % 10) + 1])

RECURSIVE DigitsValue(_)
DigitsValue(text) ==
    IF text = <<>> THEN 0
    ELSE 10 * DigitsValue(SubSeq(text, 1, Len(text) - 1)) + DigitValue(text[Len(text)])

\* strconv.ParseInt(text, 10, 64): an error for the empty text and for any
\* character that is not a digit (after one leading sign)
ParseInt(text) ==
    LET signed == text # <<>> /\ text[1] \in {"+", "-"}
        body == IF signed THEN Tail(text) ELSE text
    IN IF body = <<>> \/ \E i \in DOMAIN body : ~IsDigit(body[i])
       THEN [err |-> TRUE, value |-> 0]
       ELSE [err |-> FALSE,
             value |-> IF signed /\ text[1] = "-" THEN 0 - DigitsValue(body)
                       ELSE DigitsValue(body)]

(***************************************************************************)
(* Key database records (specification, section 3)                         *)
(***************************************************************************)
NoAliveMessage == [IP |-> "", Hostname |-> "", Timestamp |-> 0]

NewRecord(maxActive, allowedClients, aliveCount) ==
    [MaxActive |-> maxActive,
     AllowedClients |-> allowedClients,
     AliveIntervalSec |-> REPORT_ALIVE_INTERVAL_SEC,
     AliveCount |-> aliveCount,
     LastRetrieval |-> NoAliveMessage,
     AliveMessages |-> <<>>]

LivenessWindow(rec) == rec.AliveIntervalSec * rec.AliveCount

IsAliveAt(rec, msg, t) == t - msg.Timestamp < LivenessWindow(rec)

RemoveDeadHosts(rec, t) ==
    LET live(ip) == SelectSeq(rec.AliveMessages[ip], LAMBDA m : IsAliveAt(rec, m, t))
        keep == {ip \in DOMAIN rec.AliveMessages : Len(live(ip)) > 0}
    IN [rec EXCEPT !.AliveMessages = [ip \in keep |-> live(ip)]]

AppendAlive(rec, msg) ==
    [rec EXCEPT !.AliveMessages =
        [ip \in DOMAIN rec.AliveMessages \cup {msg.IP} |->
            IF ip = msg.IP
            THEN (IF ip \in DOMAIN rec.AliveMessages
                  THEN Append(rec.AliveMessages[ip], msg) ELSE <<msg>>)
            ELSE rec.AliveMessages[ip]]]

Upsert(d, uuid, rec) == [d EXCEPT ![uuid] = rec]

(***************************************************************************)
(* Password check (specification, section 4.2): the server keeps a salt    *)
(* and the hash of salt and password; a request proves the password when   *)
(* hashing what it carries gives the stored hash.                          *)
(***************************************************************************)
PASSWORD_SALT == "salt"
HashPassword(salt, pwd) == <<salt, pwd>>
PASSWORD_HASH == HashPassword(PASSWORD_SALT, ServerPassword)
ValidatePassword(pwd) == HashPassword(PASSWORD_SALT, pwd) = PASSWORD_HASH

(***************************************************************************)
(* RPC service (specification, section 4.3).  A response carries the three *)
(* sub-maps Granted, Rejected, Missing, modelled by their key sets.        *)
(***************************************************************************)
EmptyResp(d) == [db |-> d, Granted |-> {}, Rejected |-> {}, Missing |-> {}]

PeerAllowed(rec, ident) ==
    rec.AllowedClients = <<>> \/ Contains(rec.AllowedClients, ident)

\* mutant: off by one, a further host is admitted when the limit is reached
UnderMaxActiveOffByOne(rec, ip) ==
    \/ rec.MaxActive = 0
    \/ Cardinality(DOMAIN rec.AliveMessages) <= rec.MaxActive
    \/ ip \in DOMAIN rec.AliveMessages

\* rec has had RemoveDeadHosts applied
UnderMaxActive(rec, ip) ==
    \/ rec.MaxActive = 0
    \/ Cardinality(DOMAIN rec.AliveMessages) < rec.MaxActive
    \/ ip \in DOMAIN rec.AliveMessages

Grant(acc, uuid, rec, msg) ==
    [acc EXCEPT !.db = Upsert(acc.db, uuid, [AppendAlive(rec, msg) EXCEPT !.LastRetrieval = msg]),
                !.Granted = @ \cup {uuid}]

\* mutant: a UUID without a record is passed over instead of reported missing
AutoRetrieveOneSkipsMissing(acc, uuid, ident, ip, hostname, t) ==
    IF uuid \notin DOMAIN acc.db
    THEN acc
    ELSE LET rec == RemoveDeadHosts(acc.db[uuid], t)
         IN IF ~PeerAllowed(rec, ident) \/ ~UnderMaxActive(rec, ip)
            THEN [acc EXCEPT !.Rejected = @ \cup {uuid}]
            ELSE Grant(acc, uuid, rec, [IP |-> ip, Hostname |-> hostname, Timestamp |-> t])

\* Admission of one UUID of an AutoRetrieve request, steps 1 to 5.
AutoRetrieveOne(acc, uuid, ident, ip, hostname, t) ==
    IF uuid \notin DOMAIN acc.db
    THEN [acc EXCEPT !.Missing = @ \cup {uuid}]
    ELSE LET rec == RemoveDeadHosts(acc.db[uuid], t)
         IN IF ~PeerAllowed(rec, ident)
            THEN [acc EXCEPT !.Rejected = @ \cup {uuid}]
            ELSE IF ~UnderMaxActive(rec, ip)
            THEN [acc EXCEPT !.Rejected = @ \cup {uuid}]
            ELSE Grant(acc, uuid, rec, [IP |-> ip, Hostname |-> hostname, Timestamp |-> t])

RECURSIVE AutoRetrieveKey(_, _, _, _, _, _)
AutoRetrieveKey(acc, uuids, ident, ip, hostname, t) ==
    IF uuids = <<>> THEN acc
    ELSE AutoRetrieveKey(AutoRetrieveOne(acc, Head(uuids), ident, ip, hostname, t),
                         Tail(uuids), ident, ip, hostname, t)

\* One UUID of a ManualRetrieve request whose password has been proven:
\* the password authorizes, MaxActive and AllowedClients are not consulted.
ManualRetrieveOne(acc, uuid, ip, hostname, t) ==
    IF uuid \notin DOMAIN acc.db
    THEN [acc EXCEPT !.Missing = @ \cup {uuid}]
    ELSE Grant(acc, uuid, RemoveDeadHosts(acc.db[uuid], t),
               [IP |-> ip, Hostname |-> hostname, Timestamp |-> t])

RECURSIVE ManualRetrieveKey(_, _, _, _, _)
ManualRetrieveKey(acc, uuids, ip, hostname, t) ==
    IF uuids = <<>> THEN acc
    ELSE ManualRetrieveKey(ManualRetrieveOne(acc, Head(uuids), ip, hostname, t),
                           Tail(uuids), ip, hostname, t)

\* One UUID of a ReportAlive request: the alive message is appended unless
\* the record is gone or admitting the host would breach MaxActive.
ReportAliveOne(acc, uuid, ip, hostname, t) ==
    IF uuid \notin DOMAIN acc.db
    THEN [acc EXCEPT !.Rejected = @ \cup {uuid}]
    ELSE LET rec == RemoveDeadHosts(acc.db[uuid], t)
         IN IF ~UnderMaxActive(rec, ip)
            THEN [acc EXCEPT !.Rejected = @ \cup {uuid}]
            ELSE [acc EXCEPT !.db = Upsert(acc.db, uuid,
                        AppendAlive(rec, [IP |-> ip, Hostname |-> hostname, Timestamp |-> t]))]

RECURSIVE SrvReportAlive(_, _, _, _, _)
SrvReportAlive(acc, uuids, ip, hostname, t) ==
    IF uuids = <<>> THEN acc
    ELSE SrvReportAlive(ReportAliveOne(acc, Head(uuids), ip, hostname, t),
                        Tail(uuids), ip, hostname, t)

\* The hosts that count as active users of a record at time t.
ActiveHosts(rec, t) == DOMAIN RemoveDeadHosts(rec, t).AliveMessages

WithinMaxMsgs(d) ==
    \A u \in DOMAIN d : \A ip \in DOMAIN d[u].AliveMessages :
        Len(d[u].AliveMessages[ip]) <= MaxMsgs

Response(op, h, uuids, pwd, r, err) ==
    [op |-> op, peer |-> h, req |-> {uuids[i] : i \in 1..Len(uuids)}, pwd |-> pwd,
     Granted |-> r.Granted, Rejected |-> r.Rejected, Missing |-> r.Missing, err |-> err]

(***************************************************************************)
(* Requests as the client routines build them                              *)
(***************************************************************************)
\* mutant: the password the operator typed is not put into the request
ManualRetrieveKeyReqNoPassword(uuids, hostname, password) ==
    [UUIDs |-> uuids, Hostname |-> hostname, PlainPassword |-> ""]

ManualRetrieveKeyReq(uuids, hostname, password) ==
    [UUIDs |-> uuids, Hostname |-> hostname, PlainPassword |-> password]

ReportAliveReq(hostname, uuid) == [Hostname |-> hostname, UUIDs |-> <<uuid>>]

\* mutant: the loop sleeps two intervals between its calls
ReportAliveSleepTwice(t) == t + 2 * REPORT_ALIVE_INTERVAL_SEC

\* time.Sleep(REPORT_ALIVE_INTERVAL_SEC * time.Second) at the end of an iteration
ReportAliveSleep(t) == t + REPORT_ALIVE_INTERVAL_SEC

(***************************************************************************)
(* The parts of the program that a specification leaves at rest            *)
(***************************************************************************)
NoCertInfo == [DNSName |-> "", IPAddress |-> ""]

CertIdle ==
    /\ state = [PeerCertificates |-> <<>>]
    /\ certPc = "idle"
    /\ certInfo = NoCertInfo

NoRecord == [UUID |-> "", MappedName |-> "", MountPoint |-> "", AutoEncyption |-> FALSE]
NoDevice == [found |-> FALSE, luks |-> FALSE, openName |-> "", MountPoint |-> ""]
NoUfs == [found |-> FALSE, luks |-> FALSE, dmName |-> "", maxAttempts |-> 0, i |-> 0,
          succeeded |-> FALSE, mounted |-> FALSE, said |-> "none"]
NoAuto == [maxRetrySec |-> 0, begin |-> 0, numFailures |-> 0,
           resp |-> [Granted |-> {}, Rejected |-> {}, Missing |-> {}], err |-> "nil"]
NoErase == [foundHost |-> FALSE, foundUnlocked |-> FALSE, MountPoint |-> ""]
NoReport == [uuid |-> "", numFailures |-> 0]

NoMan == [hasErr |-> FALSE, resp |-> "none", unlockErr |-> FALSE]
NoConf == [salt |-> <<>>, hash |-> <<>>]
NoInitSrv == [pc |-> "idle", i |-> 0, j |-> 0, pid |-> 0, mainPID |-> 0,
              result |-> "none", said |-> "", outcome |-> "none",
              file |-> NoConf, file0 |-> NoConf, conf |-> NoConf, reconfigure |-> FALSE,
              pwd |-> <<>>, confirmPwd |-> <<>>, asked |-> 0]
NoCaller == [pc |-> "idle", data |-> <<>>, serial |-> 0, err |-> "nil"]
NoSer == [file |-> <<>>, file0 |-> <<>>, holder |-> "none", calls |-> 0, issued |-> <<>>,
          procs |-> <<>>]

AdmIdle ==
    /\ man = NoMan
    /\ initSrv = NoInitSrv
    /\ ser = NoSer

ClientIdle ==
    /\ pc = "idle"
    /\ entry = "none"
    /\ unlockRec = NoRecord
    /\ dev = NoDevice
    /\ ufs = NoUfs
    /\ auto = NoAuto
    /\ erase = NoErase
    /\ log = <<>>
    /\ result = "none"
    /\ clock = 0
    /\ srvRecord = FALSE
    /\ progressOut = <<>>
    /\ report = NoReport

MaxCmds == 2            \* commands the operator sends
CmdIPs == {"10.0.0.5", "10.0.0.6"}
CmdIds == 1..MaxCmds

NoCommands == [ip \in CmdIPs |-> <<>>]
\* the record of the UUID before any retrieval
FreshRecord == [PendingCommands |-> NoCommands, AliveMessages |-> 0,
                LastRetrieval |-> -1, AllowedClients |-> <<>>]
NoOperator == [pc |-> "idle", kind |-> "none", rec |-> FreshRecord, sent |-> 0,
               err |-> "nil", restarted |-> FALSE, out |-> <<>>,
               arg |-> "", wrote |-> FALSE, row |-> <<>>, ping |-> "none",
               text |-> <<>>]

CommandsIdle ==
    /\ cmdNow = 0
    /\ disk = FreshRecord
    /\ mem = FreshRecord
    /\ ideal = FreshRecord
    /\ opr = NoOperator
    /\ delivered = [id \in CmdIds |-> 0]
    /\ running = TRUE

(***************************************************************************)
(* The key server with its clients: specification SpecServer               *)
(***************************************************************************)
Reporter == "H1"            \* the host that runs routine.ReportAlive after its grant
OtherReporters == {"H2"}    \* hosts that send alive messages whenever they like
OperatorHosts == {"H3"}     \* hosts on which the administrator runs online-unlock

NoResp == [op |-> "none", peer |-> "", req |-> {}, pwd |-> "",
           Granted |-> {}, Rejected |-> {}, Missing |-> {}, err |-> FALSE]

\* The record a1 as CreateKey left it; zz has no record.
RecordConfigs ==
    {<<1, <<>> >>, <<2, <<>> >>, <<1, <<"H1", "H2">> >>}

InitServer ==
    /\ now = 0
    /\ \E c \in RecordConfigs : db = [u \in {"a1"} |-> NewRecord(c[1], c[2], 2)]
    /\ lastResp = NoResp
    /\ overridden = {}
    /\ raPc = "idle"
    /\ raWake = 0
    /\ raUUID = ""
    /\ CertIdle
    /\ ClientIdle
    /\ CommandsIdle
    /\ AdmIdle

ServerIdle ==
    /\ now = 0
    /\ db = <<>>
    /\ lastResp = NoResp
    /\ overridden = {}
    /\ raPc = "idle"
    /\ raWake = 0
    /\ raUUID = ""

\* RPC AutoRetrieve from host h.  On host H1 a granted single-UUID request
\* may be followed by routine.ReportAlive for that UUID; the grant has left
\* an alive message, the loop's calls follow it one interval apart.
AutoRetrieve(h, hostname, uuids) ==
    LET r == AutoRetrieveKey(EmptyResp(db), uuids, IdentOf(h), IPOf(h), hostname, now)
    IN /\ lastResp = NoResp
       /\ WithinMaxMsgs(r.db)
       /\ db' = r.db
       /\ lastResp' = Response("AutoRetrieve", h, uuids, "", r, FALSE)
       /\ IF h = Reporter /\ raPc = "idle" /\ Len(uuids) = 1 /\ uuids[1] \in r.Granted
          THEN \E start \in BOOLEAN :
                  IF start
                  THEN /\ raPc' = "sleep"
                       /\ raWake' = ReportAliveSleep(now)
                       /\ raUUID' = uuids[1]
                  ELSE UNCHANGED <<raPc, raWake, raUUID>>
          ELSE UNCHANGED <<raPc, raWake, raUUID>>
       /\ UNCHANGED <<now, overridden, certVars, admVars, cliVars, cmdVars>>

\* RPC ManualRetrieve from host h, with the request ManOnlineUnlockFS builds.
ManualRetrieve(h, hostname, uuids, password) ==
    LET req == ManualRetrieveKeyReq(uuids, hostname, password)
        ok == ValidatePassword(req.PlainPassword)
        r == IF ok
             THEN ManualRetrieveKey(EmptyResp(db), req.UUIDs, IPOf(h), req.Hostname, now)
             ELSE EmptyResp(db)
    IN /\ lastResp = NoResp
       /\ WithinMaxMsgs(r.db)
       /\ db' = r.db
       /\ lastResp' = Response("ManualRetrieve", h, uuids, password, r, ~ok)
       /\ overridden' = overridden \cup r.Granted
       /\ UNCHANGED <<now, raPc, raWake, raUUID, certVars, admVars, cliVars, cmdVars>>

\* RPC ReportAlive from any host, at any time.
ReportAliveRPC(h, hostname, uuids) ==
    LET r == SrvReportAlive(EmptyResp(db), uuids, IPOf(h), hostname, now)
    IN /\ lastResp = NoResp
       /\ WithinMaxMsgs(r.db)
       /\ db' = r.db
       /\ lastResp' = Response("ReportAlive", h, uuids, "", r, FALSE)
       /\ UNCHANGED <<now, overridden, raPc, raWake, raUUID, certVars, admVars, cliVars, cmdVars>>

\* routine.ReportAlive on host H1: one iteration of the loop up to its sleep.
ReportAliveCall ==
    /\ lastResp = NoResp
    /\ raPc = "call"
    /\ LET req == ReportAliveReq(Reporter, raUUID)
           r == SrvReportAlive(EmptyResp(db), req.UUIDs, IPOf(Reporter), req.Hostname, now)
       IN /\ WithinMaxMsgs(r.db)
          /\ db' = r.db
          /\ lastResp' = Response("ReportAliveLoop", Reporter, req.UUIDs, "", r, FALSE)
          /\ IF r.Rejected # {}
             THEN raPc' = "returned" /\ raWake' = 0
             ELSE raPc' = "sleep" /\ raWake' = ReportAliveSleep(now)
    /\ UNCHANGED <<now, overridden, raUUID, certVars, admVars, cliVars, cmdVars>>

\* the sleep of the reporter ends
ReportAliveWake ==
    /\ lastResp = NoResp
    /\ raPc = "sleep"
    /\ now >= raWake
    /\ raPc' = "call"
    /\ raWake' = 0
    /\ UNCHANGED <<now, db, lastResp, overridden, raUUID, certVars, admVars, cliVars, cmdVars>>

\* the client process is stopped
ReportAliveQuit ==
    /\ lastResp = NoResp
    /\ raPc \in {"call", "sleep", "returned"}
    /\ raPc' = "idle"
    /\ raWake' = 0
    /\ raUUID' = ""
    /\ UNCHANGED <<now, db, lastResp, overridden, certVars, admVars, cliVars, cmdVars>>

\* the response of the last RPC has reached its caller
Return ==
    /\ lastResp # NoResp
    /\ lastResp' = NoResp
    /\ UNCHANGED <<now, db, overridden, raPc, raWake, raUUID, certVars, admVars, cliVars, cmdVars>>

\* Time passes.  A reporter that is due is not kept waiting.
Tick ==
    /\ lastResp = NoResp
    /\ now + TimeStep <= MaxTime
    /\ raPc # "call"
    /\ raPc = "sleep" => now + TimeStep <= raWake
    /\ now' = now + TimeStep
    /\ UNCHANGED <<db, lastResp, overridden, raPc, raWake, raUUID, certVars, admVars, cliVars, cmdVars>>

NextServer ==
    \/ \E h \in Hosts, uuids \in Requests : AutoRetrieve(h, h, uuids)
    \/ \E h \in OperatorHosts, uuids \in Requests, password \in Passwords :
          ManualRetrieve(h, h, uuids, password)
    \/ \E h \in OtherReporters, uuid \in AllUUIDs : ReportAliveRPC(h, h, <<uuid>>)
    \/ ReportAliveCall
    \/ ReportAliveWake
    \/ ReportAliveQuit
    \/ Return
    \/ Tick

SpecServer == InitServer /\ [][NextServer]_vars

(***************************************************************************)
(* Properties of the key server                                            *)
(***************************************************************************)
\* The hosts whose latest alive message lies within the liveness window.
HostsAliveNow(rec) ==
    {ip \in DOMAIN rec.AliveMessages :
        \E i \in 1..Len(rec.AliveMessages[ip]) :
            now - rec.AliveMessages[ip][i].Timestamp < rec.AliveIntervalSec * rec.AliveCount}

IsAllowedClient(rec, h) ==
    \E i \in 1..Len(rec.AllowedClients) : rec.AllowedClients[i] = IdentOf(h)

\* C1: for every record with MaxActive = m > 0 that has been handed out by
\* AutoRetrieve only, the number of distinct hosts whose latest alive message
\* lies within the liveness window never exceeds m.
C1_MaxActiveNeverExceeded ==
    \A u \in DOMAIN db :
        (db[u].MaxActive > 0 /\ u \notin overridden)
            => Cardinality(HostsAliveNow(db[u])) <= db[u].MaxActive

\* C1 witness: the limit is reached and AutoRetrieve has just turned down a
\* further host that the allow-list would admit.
C1_Witness ==
    /\ lastResp.op = "AutoRetrieve"
    /\ "a1" \in lastResp.Rejected
    /\ "a1" \notin overridden
    /\ db["a1"].AllowedClients = <<>>
    /\ db["a1"].MaxActive = 2
    /\ Cardinality(HostsAliveNow(db["a1"])) = 2
    /\ IPOf(lastResp.peer) \notin HostsAliveNow(db["a1"])

\* C2: an AutoRetrieve from a peer whose identity is not a member of a
\* record's non-empty AllowedClients puts the UUID in Rejected, never in
\* Granted, and leaves the record as it was.
C2_AllowListEnforced ==
    [][lastResp'.op = "AutoRetrieve" =>
             \A u \in lastResp'.req \cap DOMAIN db :
                (db[u].AllowedClients # <<>> /\ ~IsAllowedClient(db[u], lastResp'.peer))
                   => /\ u \in lastResp'.Rejected
                      /\ u \notin lastResp'.Granted
                      /\ u \notin lastResp'.Missing
                      /\ db'[u] = db[u]]_vars

\* C2 witness: H3, not on the allow-list <<H1, H2>>, has been rejected while
\* nobody holds the key (so MaxActive is not what turned it down).
C2_Witness ==
    /\ lastResp.op = "AutoRetrieve"
    /\ lastResp.peer = "H3"
    /\ "a1" \in lastResp.Rejected
    /\ db["a1"].AllowedClients = <<"H1", "H2">>
    /\ HostsAliveNow(db["a1"]) = {}

\* C4: ManualRetrieve grants exactly the requested UUIDs that have a record
\* when the password is the server password (whatever MaxActive and
\* AllowedClients say), and grants nothing and changes no record otherwise.
C4_ManualRetrieveByPassword ==
    [][lastResp'.op = "ManualRetrieve" =>
             IF lastResp'.pwd = ServerPassword
             THEN /\ lastResp'.Granted = lastResp'.req \cap DOMAIN db
                  /\ \A u \in lastResp'.Granted :
                        db'[u].LastRetrieval =
                            [IP |-> IPOf(lastResp'.peer), Hostname |-> lastResp'.peer,
                             Timestamp |-> now]
             ELSE /\ lastResp'.Granted = {}
                  /\ db' = db]_vars

\* C4 witness: H3 is not on the allow-list and MaxActive = 1 is already used
\* up by another host, and ManualRetrieve has granted a1 to H3.
C4_Witness ==
    /\ lastResp.op = "ManualRetrieve"
    /\ lastResp.peer = "H3"
    /\ "a1" \in lastResp.Granted
    /\ db["a1"].AllowedClients = <<"H1", "H2">>
    /\ db["a1"].MaxActive = 1
    /\ Cardinality(HostsAliveNow(db["a1"])) = 2

\* C5: the Granted, Rejected and Missing sets of an AutoRetrieve response are
\* pairwise disjoint and their union is the set of requested UUIDs.
C5_ResponsePartitionsRequest ==
    lastResp.op = "AutoRetrieve" =>
        /\ lastResp.Granted \cap lastResp.Rejected = {}
        /\ lastResp.Granted \cap lastResp.Missing = {}
        /\ lastResp.Rejected \cap lastResp.Missing = {}
        /\ lastResp.Granted \cup lastResp.Rejected \cup lastResp.Missing = lastResp.req

\* C5 witness: a response with a granted and a missing UUID.
C5_Witness ==
    /\ lastResp.op = "AutoRetrieve"
    /\ lastResp.Granted = {"a1"}
    /\ lastResp.Missing = {"zz"}

\* C6: while host H1, granted a record by AutoRetrieve, keeps running the
\* ReportAlive loop, it stays among the record's live hosts, the loop is
\* never turned down, and no AutoRetrieve or ReportAlive of H1 for that
\* record is rejected.
C6_ReportingHostNeverEvicted ==
    /\ raPc # "returned"
    /\ raPc \in {"call", "sleep"} =>
          /\ IPOf(Reporter) \in HostsAliveNow(db[raUUID])
          /\ lastResp.peer = Reporter => raUUID \notin lastResp.Rejected

\* C6 witness: H1 has reported for a full window (the alive message of its
\* grant has lapsed), the limit is reached, and another host has just been
\* rejected.
C6_Witness ==
    /\ raPc \in {"call", "sleep"}
    /\ now >= 20
    /\ db["a1"].MaxActive = 1
    /\ lastResp.op = "AutoRetrieve"
    /\ lastResp.peer = "H2"
    /\ "a1" \in lastResp.Rejected
    /\ db["a1"].AllowedClients = <<>>

(***************************************************************************)
(* helper.GetCertificatInfo: specification SpecCert                        *)
(***************************************************************************)
MaxChain == 2       \* certificates in a peer chain
MaxDNS == 2         \* DNS SANs of a certificate
MaxIP == 1          \* IP SANs of a certificate

DNSNameSet == {"h1.example", "ca.example"}
IPAddressSet == {<<10, 0, 0, 1>>, <<192, 168, 0, 9>>}

\* x509.Certificate, the two fields the function reads
Certificates ==
    {[DNSNames |-> d, IPAddresses |-> a] :
        d \in SeqsUpTo(DNSNameSet, MaxDNS), a \in SeqsUpTo(IPAddressSet, MaxIP)}

\* net.IP.String() of an IPv4 address: dotted decimal
IPString(ip) ==
    ToString(ip[1]) \o "." \o ToString(ip[2]) \o "." \o ToString(ip[3]) \o "." \o ToString(ip[4])

\* the body of the loop over state.PeerCertificates
CertInfoStep(info, cert) ==
    LET withDNS == IF Len(cert.DNSNames) # 0
                   THEN [info EXCEPT !.DNSName = cert.DNSNames[1]] ELSE info
    IN IF Len(cert.IPAddresses) # 0
       THEN [withDNS EXCEPT !.IPAddress = IPString(cert.IPAddresses[1])] ELSE withDNS

RECURSIVE CertInfoLoop(_, _)
CertInfoLoop(info, certs) ==
    IF certs = <<>> THEN info
    ELSE CertInfoLoop(CertInfoStep(info, Head(certs)), Tail(certs))

GetCertificatInfo(st) == CertInfoLoop(NoCertInfo, st.PeerCertificates)

\* the identity the server takes from the pair (specification, section 4.1)
PeerIdentity(info) == IF info.DNSName # "" THEN info.DNSName ELSE info.IPAddress

InitCert ==
    /\ \E chain \in SeqsUpTo(Certificates, MaxChain) : state = [PeerCertificates |-> chain]
    /\ certPc = "handshake"
    /\ certInfo = NoCertInfo
    /\ ServerIdle
    /\ ClientIdle
    /\ CommandsIdle
    /\ AdmIdle

\* the server reads the identity of the peer of a new connection
ReadCertificatInfo ==
    /\ certPc = "handshake"
    /\ certInfo' = GetCertificatInfo(state)
    /\ certPc' = "done"
    /\ UNCHANGED <<state, srvVars, cliVars, cmdVars, admVars>>

NextCert == ReadCertificatInfo

SpecCert == InitCert /\ [][NextCert]_vars

\* what the leaf certificate alone says
LeafInfo(chain) ==
    IF chain = <<>> THEN NoCertInfo ELSE CertInfoStep(NoCertInfo, chain[1])

\* C3: the identity GetCertificatInfo returns is the first DNS SAN of the
\* leaf certificate (the first of the chain) and, failing that, its first IP
\* SAN; the SANs of the other certificates of the chain never determine or
\* override what is returned.
C3_IdentityFromLeafOnly ==
    certPc = "done" =>
        /\ certInfo = LeafInfo(state.PeerCertificates)
        /\ PeerIdentity(certInfo) = PeerIdentity(LeafInfo(state.PeerCertificates))

(***************************************************************************)
(* Client routines (package routine): specification SpecClient             *)
(*                                                                         *)
(* One encrypted block device, the one with the UUID at hand.  The calls   *)
(* into package fs, the os and the RPC client are the environment: each    *)
(* returns an error or not, and the log keeps the order of the calls.      *)
(***************************************************************************)
MaxAttempts == 2    \* maxAttempts of a direct call of UnlockFS
MaxRetrySec == 6    \* largest maxRetrySec of a call of AutoOnlineUnlockFS
MaxRpcSec == 1      \* longest time an RPC takes, in whole seconds

AUTO_UNLOCK_ATTEMPTS == 3

TheUUID == "a1"
DevPath == "sdb1"

\* the name derived from the path of the backing device
MakeDeviceMapperName(path) == "cryptctl-unlocked-" \o path

MappedNames == {"", "secret", MakeDeviceMapperName(DevPath)}
MountPoints == {"", "/mnt"}

\* the records the server may hand out for the UUID
Records ==
    {[UUID |-> TheUUID, MappedName |-> m, MountPoint |-> p, AutoEncyption |-> a] :
        m \in MappedNames, p \in MountPoints, a \in BOOLEAN}

RetrySecs == {-1, 0, MaxRetrySec}

LogEntry(call, ok, attempt, kind) ==
    [call |-> call, ok |-> ok, attempt |-> attempt, kind |-> kind]

\* cryptsetup open needs a name for the mapping
CryptOpenOutcomes(name) == IF name = "" THEN {FALSE} ELSE BOOLEAN

\* mount needs the mapper device to exist
MountOutcomes(d, name) == IF name # "" /\ d.openName = name THEN BOOLEAN ELSE {FALSE}

\* what AutoRetrieve answers for one UUID, or the RPC fails
RespKinds == IF srvRecord THEN {"granted", "rejected", "error"} ELSE {"missing", "error"}

RespOf(kind) ==
    [Granted  |-> IF kind = "granted"  THEN {TheUUID} ELSE {},
     Rejected |-> IF kind = "rejected" THEN {TheUUID} ELSE {},
     Missing  |-> IF kind = "missing"  THEN {TheUUID} ELSE {}]

InitClient ==
    /\ pc = "idle"
    /\ entry = "none"
    /\ unlockRec = NoRecord
    /\ \E found, luks \in BOOLEAN :
          dev = [found |-> found, luks |-> found /\ luks, openName |-> "", MountPoint |-> ""]
    /\ ufs = NoUfs
    /\ auto = NoAuto
    /\ erase = NoErase
    /\ log = <<>>
    /\ result = "none"
    /\ clock = 0
    /\ srvRecord \in BOOLEAN
    /\ progressOut = <<>>
    /\ report = NoReport
    /\ ServerIdle
    /\ CertIdle
    /\ CommandsIdle
    /\ AdmIdle

\* a command runs one routine and exits; the next command starts afresh
Callable == pc = "idle"

Exit ==
    /\ pc = "done"
    /\ pc' = "idle"
    /\ entry' = "none"
    /\ unlockRec' = NoRecord
    /\ ufs' = NoUfs
    /\ auto' = NoAuto
    /\ erase' = NoErase
    /\ log' = <<>>
    /\ result' = "none"
    /\ clock' = 0
    /\ progressOut' = <<>>
    /\ report' = NoReport
    /\ UNCHANGED <<dev, srvRecord, srvVars, certVars, admVars, cmdVars>>

\* ---- UnlockFS -----------------------------------------------------------

\* mutant: the device is formatted whenever the record asks for encryption
FormatDecisionIgnoresLUKS(isLUKS, autoEncyption) ==
    IF autoEncyption THEN "format" ELSE IF isLUKS THEN "open" ELSE "fail"

\* lines 76-84: what is done with the discovered device before it is opened
FormatDecision(isLUKS, autoEncyption) ==
    IF isLUKS THEN "open" ELSE IF autoEncyption THEN "format" ELSE "fail"

\* lines 87-90: the name computed for an empty MappedName is dropped
UnlockDmName(r, path) ==
    LET derived == MakeDeviceMapperName(path)
    IN r.MappedName

\* locals of UnlockFS at the head of the loop (lines 99-100)
UfsAtLoop(u, r) ==
    [u EXCEPT !.dmName = UnlockDmName(r, DevPath), !.i = 0,
              !.succeeded = TRUE, !.mounted = FALSE]

LoopOrEnd(i, maxAttempts) == IF i < maxAttempts THEN "u_open" ELSE "u_end"

CallUnlockFS(r, maxAttempts) ==
    /\ Callable
    /\ entry' = "UnlockFS"
    /\ unlockRec' = r
    /\ ufs' = [NoUfs EXCEPT !.maxAttempts = maxAttempts]
    /\ pc' = "u_find"
    /\ log' = <<>>
    /\ result' = "none"
    /\ clock' = 0
    /\ auto' = NoAuto
    /\ erase' = NoErase
    /\ UNCHANGED <<dev, srvRecord, progressOut, report, srvVars, certVars, admVars, cmdVars>>

\* where UnlockFS returns to: ManOnlineUnlockFS goes on after the call
\* (line 51), the other callers return what UnlockFS returned
ReturnFromUnlockFS(caller) ==
    IF caller = "ManOnlineUnlockFS" THEN "m_unlocked" ELSE "done"

\* lines 71-91: find the device, format it if need be
UnlockFind ==
    /\ pc = "u_find"
    /\ IF ~dev.found
       THEN /\ result' = "error"
            /\ pc' = ReturnFromUnlockFS(entry)
            /\ UNCHANGED <<ufs, dev, log>>
       ELSE LET u == [ufs EXCEPT !.found = TRUE, !.luks = dev.luks]
                d == FormatDecision(dev.luks, unlockRec.AutoEncyption)
            IN CASE d = "fail" ->
                      /\ result' = "error"
                      /\ pc' = ReturnFromUnlockFS(entry)
                      /\ ufs' = u
                      /\ UNCHANGED <<dev, log>>
                 [] d = "format" ->
                      \E ok \in BOOLEAN :
                         /\ log' = Append(log, LogEntry("CryptFormat", ok, -1, ""))
                         /\ IF ok
                            THEN /\ dev' = [dev EXCEPT !.luks = TRUE]
                                 /\ ufs' = UfsAtLoop(u, unlockRec)
                                 /\ pc' = LoopOrEnd(0, ufs.maxAttempts)
                                 /\ UNCHANGED result
                            ELSE /\ result' = "error"
                                 /\ pc' = ReturnFromUnlockFS(entry)
                                 /\ ufs' = u
                                 /\ UNCHANGED dev
                 [] OTHER ->
                      /\ ufs' = UfsAtLoop(u, unlockRec)
                      /\ pc' = LoopOrEnd(0, ufs.maxAttempts)
                      /\ UNCHANGED <<dev, log, result>>
    /\ UNCHANGED <<entry, unlockRec, auto, erase, clock, srvRecord, progressOut, report, srvVars, certVars, admVars, cmdVars>>

\* lines 102-105
UnlockOpen ==
    /\ pc = "u_open"
    /\ \E ok \in CryptOpenOutcomes(ufs.dmName) :
          /\ log' = Append(log, LogEntry("CryptOpen", ok, ufs.i, ""))
          /\ ufs' = [ufs EXCEPT !.succeeded = @ /\ ok]
          /\ dev' = IF ok THEN [dev EXCEPT !.openName = ufs.dmName] ELSE dev
    /\ pc' = IF unlockRec.MountPoint # "" THEN "u_mkdir" ELSE "u_check"
    /\ UNCHANGED <<entry, unlockRec, auto, erase, result, clock, srvRecord, progressOut, report, srvVars, certVars, admVars, cmdVars>>

\* lines 107-110
UnlockMkdir ==
    /\ pc = "u_mkdir"
    /\ \E ok \in BOOLEAN :
          /\ log' = Append(log, LogEntry("MkdirAll", ok, ufs.i, ""))
          /\ ufs' = [ufs EXCEPT !.succeeded = @ /\ ok]
    /\ pc' = "u_mount"
    /\ UNCHANGED <<entry, unlockRec, dev, auto, erase, result, clock, srvRecord, progressOut, report, srvVars, certVars, admVars, cmdVars>>

\* lines 111-115
UnlockMount ==
    /\ pc = "u_mount"
    /\ \E ok \in MountOutcomes(dev, ufs.dmName) :
          /\ log' = Append(log, LogEntry("Mount", ok, ufs.i, ""))
          /\ ufs' = [ufs EXCEPT !.succeeded = @ /\ ok, !.mounted = TRUE]
          /\ dev' = IF ok THEN [dev EXCEPT !.MountPoint = unlockRec.MountPoint] ELSE dev
    /\ pc' = "u_check"
    /\ UNCHANGED <<entry, unlockRec, auto, erase, result, clock, srvRecord, progressOut, report, srvVars, certVars, admVars, cmdVars>>

\* lines 117-122 and the loop's i++ and test
UnlockCheck ==
    /\ pc = "u_check"
    /\ IF ufs.succeeded
       THEN /\ pc' = "u_end"
            /\ UNCHANGED <<ufs, log>>
       ELSE /\ log' = Append(log, LogEntry("Sleep", TRUE, ufs.i, ""))
            /\ ufs' = [ufs EXCEPT !.i = @ + 1]
            /\ pc' = LoopOrEnd(ufs.i + 1, ufs.maxAttempts)
    /\ UNCHANGED <<entry, unlockRec, dev, auto, erase, result, clock, srvRecord, progressOut, report, srvVars, certVars, admVars, cmdVars>>

\* mutant: the file system is reported as mounted once mount was called
UnlockOutcomeTrustsMounted(succeeded, mounted) ==
    IF mounted THEN [said |-> "mounted", result |-> "nil"]
    ELSE IF succeeded THEN [said |-> "unlocked", result |-> "nil"]
    ELSE [said |-> "", result |-> "error"]

\* lines 123-130: the closing message and the value returned
UnlockOutcome(succeeded, mounted) ==
    IF succeeded /\ mounted THEN [said |-> "mounted", result |-> "nil"]
    ELSE IF succeeded THEN [said |-> "unlocked", result |-> "nil"]
    ELSE [said |-> "", result |-> "error"]

\* lines 123-130
UnlockEnd ==
    /\ pc = "u_end"
    /\ result' = UnlockOutcome(ufs.succeeded, ufs.mounted).result
    /\ ufs' = [ufs EXCEPT !.said = UnlockOutcome(ufs.succeeded, ufs.mounted).said]
    /\ pc' = ReturnFromUnlockFS(entry)
    /\ UNCHANGED <<entry, unlockRec, dev, auto, erase, log, clock, srvRecord, progressOut, report, srvVars, certVars, admVars, cmdVars>>

\* ---- AutoOnlineUnlockFS -------------------------------------------------

\* mutant: a missing key is retried like a rejection
AfterResponseRetriesMissing(resp, err, UUID) ==
    IF err = "nil" /\ UUID \in resp.Granted THEN "unlock" ELSE "retry"

\* lines 149-159: what the loop does with the answer
AfterResponse(resp, err, UUID) ==
    IF err = "nil" /\ UUID \in resp.Granted THEN "unlock"
    ELSE IF err = "nil" /\ resp.Missing # {} THEN "missing"
    ELSE "retry"

\* lines 161-163
ErrAfterRejected(resp, err) ==
    IF resp.Rejected # {} THEN "MaxActive is exceeded" ELSE err

\* mutant: the suppression notice is repeated on every later failure
FailurePrintRepeatsNotice(numFailures) ==
    IF numFailures >= 5 THEN <<"suppress">> ELSE <<"failed">>

\* lines 171-176 and 207-211: what a failure prints, given the failures before it
FailurePrint(numFailures) ==
    IF numFailures = 5 THEN <<"suppress">>
    ELSE IF numFailures < 5 THEN <<"failed">>
    ELSE <<>>

\* mutant: gives up when the next attempt would come after the deadline
GiveUpBeforeNextAttempt(t, begin, maxRetrySec) ==
    t + AUTO_UNLOCK_RETRY_INTERVAL_SEC > begin + maxRetrySec

\* mutant: the start time is compared with the deadline, not the current time
GiveUpNeverLate(t, begin, maxRetrySec) == begin > begin + maxRetrySec

\* line 165
GiveUp(t, begin, maxRetrySec) == t > begin + maxRetrySec

CallAutoOnlineUnlockFS(maxRetrySec) ==
    /\ Callable
    /\ entry' = "AutoOnlineUnlockFS"
    /\ clock' = 0
    /\ auto' = [NoAuto EXCEPT !.maxRetrySec = maxRetrySec, !.begin = 0, !.numFailures = 0]
    /\ pc' = "a_rpc"
    /\ log' = <<>>
    /\ result' = "none"
    /\ unlockRec' = NoRecord
    /\ ufs' = NoUfs
    /\ erase' = NoErase
    /\ UNCHANGED <<dev, srvRecord, progressOut, report, srvVars, certVars, admVars, cmdVars>>

\* lines 144-163: one AutoRetrieveKey call and what follows from its answer
AutoCall ==
    /\ pc = "a_rpc"
    /\ \E kind \in RespKinds, d \in 0..MaxRpcSec, r \in Records :
          LET resp == RespOf(kind)
              err == IF kind = "error" THEN "rpc failed" ELSE "nil"
              todo == AfterResponse(resp, err, TheUUID)
          IN /\ kind # "granted" => r = CHOOSE x \in Records : TRUE
             /\ clock' = clock + d
             /\ log' = Append(log, LogEntry("AutoRetrieveKey", err = "nil", -1, kind))
             /\ CASE todo = "unlock" ->
                       /\ unlockRec' = r
                       /\ ufs' = [NoUfs EXCEPT !.maxAttempts = AUTO_UNLOCK_ATTEMPTS]
                       /\ pc' = "u_find"
                       /\ auto' = [auto EXCEPT !.resp = resp, !.err = err]
                       /\ UNCHANGED result
                  [] todo = "missing" ->
                       /\ result' = "error"
                       /\ pc' = "done"
                       /\ auto' = [auto EXCEPT !.resp = resp, !.err = err]
                       /\ UNCHANGED <<unlockRec, ufs>>
                  [] OTHER ->
                       /\ auto' = [auto EXCEPT !.resp = resp, !.err = ErrAfterRejected(resp, err)]
                       /\ pc' = "a_deadline"
                       /\ UNCHANGED <<unlockRec, ufs, result>>
    /\ UNCHANGED <<entry, dev, erase, srvRecord, progressOut, report, srvVars, certVars, admVars, cmdVars>>

\* lines 165-179: give up, or count the failure and sleep
AutoDeadline ==
    /\ pc = "a_deadline"
    /\ IF GiveUp(clock, auto.begin, auto.maxRetrySec)
       THEN /\ result' = "error"
            /\ pc' = "done"
            /\ UNCHANGED <<auto, log, clock, progressOut>>
       ELSE /\ auto' = [auto EXCEPT !.numFailures = IF auto.err # "nil" THEN @ + 1 ELSE @]
            /\ progressOut' = IF auto.err # "nil"
                              THEN progressOut \o FailurePrint(auto.numFailures)
                              ELSE progressOut
            /\ log' = Append(log, LogEntry("Sleep", TRUE, -1, ""))
            /\ clock' = clock + AUTO_UNLOCK_RETRY_INTERVAL_SEC
            /\ pc' = "a_rpc"
            /\ UNCHANGED result
    /\ UNCHANGED <<entry, unlockRec, dev, ufs, erase, srvRecord, report, srvVars, certVars, admVars, cmdVars>>

\* ---- EraseKey -----------------------------------------------------------

CallEraseKey ==
    /\ Callable
    /\ entry' = "EraseKey"
    /\ pc' = "e_find"
    /\ log' = <<>>
    /\ result' = "none"
    /\ clock' = 0
    /\ unlockRec' = NoRecord
    /\ ufs' = NoUfs
    /\ auto' = NoAuto
    /\ erase' = NoErase
    /\ UNCHANGED <<dev, srvRecord, progressOut, report, srvVars, certVars, admVars, cmdVars>>

\* lines 224-231: the device, and the mapper device under the derived name
EraseFind ==
    /\ pc = "e_find"
    /\ IF ~dev.found
       THEN /\ result' = "error"
            /\ pc' = "done"
            /\ UNCHANGED erase
       ELSE LET unlockedDevPath == MakeDeviceMapperName(DevPath)
                foundUnlocked == dev.openName = unlockedDevPath
                mountPoint == IF foundUnlocked THEN dev.MountPoint ELSE ""
            IN /\ erase' = [foundHost |-> TRUE, foundUnlocked |-> foundUnlocked,
                            MountPoint |-> mountPoint]
               /\ pc' = IF foundUnlocked
                        THEN (IF mountPoint # "" THEN "e_umount" ELSE "e_close")
                        ELSE "e_erase"
               /\ UNCHANGED result
    /\ UNCHANGED <<entry, unlockRec, dev, ufs, auto, log, clock, srvRecord, progressOut, report, srvVars, certVars, admVars, cmdVars>>

\* lines 233-238
EraseUmount ==
    /\ pc = "e_umount"
    /\ \E ok \in BOOLEAN :
          /\ log' = Append(log, LogEntry("Umount", ok, -1, ""))
          /\ IF ok
             THEN /\ dev' = [dev EXCEPT !.MountPoint = ""]
                  /\ pc' = "e_close"
                  /\ UNCHANGED result
             ELSE /\ result' = "error"
                  /\ pc' = "done"
                  /\ UNCHANGED dev
    /\ UNCHANGED <<entry, unlockRec, ufs, auto, erase, clock, srvRecord, progressOut, report, srvVars, certVars, admVars, cmdVars>>

\* lines 239-242
EraseClose ==
    /\ pc = "e_close"
    /\ \E ok \in BOOLEAN :
          /\ log' = Append(log, LogEntry("CryptClose", ok, -1, ""))
          /\ IF ok
             THEN /\ dev' = [dev EXCEPT !.openName = ""]
                  /\ pc' = "e_erase"
                  /\ UNCHANGED result
             ELSE /\ result' = "error"
                  /\ pc' = "done"
                  /\ UNCHANGED dev
    /\ UNCHANGED <<entry, unlockRec, ufs, auto, erase, clock, srvRecord, progressOut, report, srvVars, certVars, admVars, cmdVars>>

\* lines 244-246
EraseErase ==
    /\ pc = "e_erase"
    /\ \E ok \in BOOLEAN :
          /\ log' = Append(log, LogEntry("CryptErase", ok, -1, ""))
          /\ IF ok
             THEN /\ dev' = [dev EXCEPT !.luks = FALSE]
                  /\ pc' = "e_rpc"
                  /\ UNCHANGED result
             ELSE /\ result' = "error"
                  /\ pc' = "done"
                  /\ UNCHANGED dev
    /\ UNCHANGED <<entry, unlockRec, ufs, auto, erase, clock, srvRecord, progressOut, report, srvVars, certVars, admVars, cmdVars>>

\* lines 248-257: the server erases its record unless it refuses or is not reached
EraseRPC ==
    /\ pc = "e_rpc"
    /\ \E ok \in BOOLEAN :
          /\ log' = Append(log, LogEntry("EraseKeyRPC", ok, -1, ""))
          /\ srvRecord' = IF ok THEN FALSE ELSE srvRecord
          /\ result' = IF ok THEN "nil" ELSE "error"
    /\ pc' = "done"
    /\ UNCHANGED <<entry, unlockRec, dev, ufs, auto, erase, clock, progressOut, report, srvVars, certVars, admVars, cmdVars>>

NextClient ==
    \/ \E r \in Records, maxAttempts \in 1..MaxAttempts : CallUnlockFS(r, maxAttempts)
    \/ UnlockFind
    \/ UnlockOpen
    \/ UnlockMkdir
    \/ UnlockMount
    \/ UnlockCheck
    \/ UnlockEnd
    \/ \E maxRetrySec \in RetrySecs : CallAutoOnlineUnlockFS(maxRetrySec)
    \/ AutoCall
    \/ AutoDeadline
    \/ CallEraseKey
    \/ EraseFind
    \/ EraseUmount
    \/ EraseClose
    \/ EraseErase
    \/ EraseRPC
    \/ Exit

SpecClient == InitClient /\ [][NextClient]_vars

(***************************************************************************)
(* Properties of the client routines                                       *)
(***************************************************************************)
Calls(name) == {k \in DOMAIN log : log[k].call = name}

OkCalls(name) == {k \in Calls(name) : log[k].ok}

LocalEraseSteps == {"Umount", "CryptClose", "CryptErase"}

\* C7: in EraseKey the EraseKey RPC is issued only after cryptsetup erase
\* has succeeded; cryptsetup erase is invoked only once the device is
\* neither mounted nor open any more (umount and cryptsetup close have
\* succeeded where they were due); and when the device is not found or a
\* local step fails, the function returns an error without the RPC, so the
\* server keeps its record.
C7_EraseOnlyAfterUmountAndClose ==
    entry = "EraseKey" =>
        /\ \A k \in Calls("EraseKeyRPC") : \E j \in OkCalls("CryptErase") : j < k
        /\ Calls("CryptErase") # {} => (dev.MountPoint = "" /\ dev.openName = "")
        /\ \A k \in Calls("CryptErase") :
              /\ erase.MountPoint # "" => \E j \in OkCalls("Umount") : j < k
              /\ erase.foundUnlocked => \E j \in OkCalls("CryptClose") : j < k
        /\ (pc = "done" /\ (~erase.foundHost
                            \/ \E k \in DOMAIN log :
                                  log[k].call \in LocalEraseSteps /\ ~log[k].ok))
              => (result = "error" /\ Calls("EraseKeyRPC") = {})

\* the steps of attempt k of the loop of UnlockFS
AttemptSteps(k) ==
    {j \in DOMAIN log : log[j].attempt = k /\ log[j].call \in {"CryptOpen", "MkdirAll", "Mount"}}

AttemptSucceeded(k) ==
    /\ AttemptSteps(k) # {}
    /\ \A j \in AttemptSteps(k) : log[j].ok

UnlockReturned ==
    /\ pc = "done"
    /\ entry \in {"UnlockFS", "AutoOnlineUnlockFS"}
    /\ Calls("CryptOpen") # {}

\* C8: UnlockFS makes at most maxAttempts attempts and returns success if
\* and only if at least one attempt completed all of its steps (cryptsetup
\* open and, with a MountPoint, mkdir and mount) without error; an earlier
\* failed attempt does not turn a later successful attempt into a failure.
C8_SuccessIffSomeAttemptSucceeds ==
    UnlockReturned =>
        /\ Cardinality(Calls("CryptOpen")) <= ufs.maxAttempts
        /\ (result = "nil") <=> (\E k \in 0..(ufs.maxAttempts - 1) : AttemptSucceeded(k))

UnlockCalls == Calls("CryptFormat") \cup Calls("CryptOpen") \cup Calls("MkdirAll") \cup Calls("Mount")

\* C9: once UnlockFS has found the device, luksFormat has been invoked iff
\* the device was not LUKS-formatted and the record has AutoEncyption set,
\* at most once and before every open; a LUKS device is never formatted;
\* a non-LUKS device without AutoEncyption makes UnlockFS return an error
\* with no format, open, mkdir or mount invoked.
C9_FormatIffNeededBeforeOpen ==
    (entry \in {"UnlockFS", "AutoOnlineUnlockFS"} /\ ufs.found) =>
        /\ (Calls("CryptFormat") # {}) <=> (~ufs.luks /\ unlockRec.AutoEncyption)
        /\ Cardinality(Calls("CryptFormat")) <= 1
        /\ \A f \in Calls("CryptFormat"), o \in Calls("CryptOpen") : f < o /\ log[f].ok
        /\ ufs.luks => Calls("CryptFormat") = {}
        /\ (~ufs.luks /\ ~unlockRec.AutoEncyption)
              => (pc = "done" /\ result = "error" /\ UnlockCalls = {})

\* C9 witness: a device that was not LUKS-formatted has been formatted,
\* then opened, and UnlockFS has returned success.
C9_Witness ==
    /\ entry = "UnlockFS"
    /\ pc = "done"
    /\ result = "nil"
    /\ ~ufs.luks
    /\ unlockRec.AutoEncyption
    /\ OkCalls("CryptFormat") = {1}
    /\ OkCalls("CryptOpen") # {}

\* C10: when AutoRetrieve answers that the UUID is missing,
\* AutoOnlineUnlockFS has returned an error right away: that call is the
\* last thing it did (no further AutoRetrieve, no sleep, no unlock).
C10_MissingStopsImmediately ==
    \A k \in Calls("AutoRetrieveKey") :
        log[k].kind = "missing" =>
            /\ k = Len(log)
            /\ pc = "done"
            /\ result = "error"

\* C10 witness: the first call failed, the loop slept, the second call was
\* answered missing while the deadline had not passed, and the routine
\* returned an error.
C10_Witness ==
    /\ entry = "AutoOnlineUnlockFS"
    /\ pc = "done"
    /\ result = "error"
    /\ Len(log) = 3
    /\ log[1].call = "AutoRetrieveKey" /\ log[1].kind = "error"
    /\ log[3].call = "AutoRetrieveKey" /\ log[3].kind = "missing"
    /\ clock <= auto.begin + auto.maxRetrySec

\* ---- AutoOnlineUnlockFS: retrying, giving up, terminating ---------------

\* the steps of a routine that has been invoked; each call into fs, os or
\* the RPC client returns, so a routine that can take a step takes it
RoutineStep ==
    \/ UnlockFind \/ UnlockOpen \/ UnlockMkdir \/ UnlockMount \/ UnlockCheck \/ UnlockEnd
    \/ AutoCall \/ AutoDeadline
    \/ EraseFind \/ EraseUmount \/ EraseClose \/ EraseErase \/ EraseRPC

SpecClientLive == InitClient /\ [][NextClient]_vars /\ WF_vars(RoutineStep)

LastCall == log[Len(log)]

\* C25: when UnlockFS has ended for a record without MountPoint, MkdirAll
\* and Mount were not called, nothing is reported as mounted, and the file
\* system is reported as unlocked exactly if no CryptOpen failed; for a
\* record with MountPoint it is reported as mounted only if a Mount went
\* well and the device is mounted there.
C25_MountedOnlyIfMounted ==
    ufs.said # "none" =>
        /\ unlockRec.MountPoint = "" =>
              /\ Calls("MkdirAll") = {}
              /\ Calls("Mount") = {}
              /\ ufs.said # "mounted"
              /\ ufs.said = "unlocked" <=> Calls("CryptOpen") = OkCalls("CryptOpen")
              /\ result = "nil" <=> ufs.said = "unlocked"
        /\ (unlockRec.MountPoint # "" /\ ufs.said = "mounted") =>
              /\ OkCalls("Mount") # {}
              /\ dev.MountPoint = unlockRec.MountPoint
              /\ result = "nil"

\* C25 witness: UnlockFS ended for a record with MountPoint, reported the
\* file system as mounted, and the device is mounted there.
C25_Witness ==
    /\ ufs.said = "mounted"
    /\ unlockRec.MountPoint = "/mnt"
    /\ dev.MountPoint = "/mnt"
    /\ OkCalls("Mount") # {}

\* for a record with MountPoint the mount failed and UnlockFS ended with
\* the error, nothing reported as mounted
C25_WitnessMountFailed ==
    /\ ufs.said = ""
    /\ unlockRec.MountPoint # ""
    /\ OkCalls("CryptOpen") # {}
    /\ Calls("Mount") # {}
    /\ OkCalls("Mount") = {}
    /\ result = "error"

\* for a record without MountPoint: reported as unlocked
C25_WitnessUnlocked ==
    /\ ufs.said = "unlocked"
    /\ unlockRec.MountPoint = ""
    /\ OkCalls("CryptOpen") # {}

\* C28: within each attempt of UnlockFS, MkdirAll and Mount are called only
\* if CryptOpen went well in that attempt.
C28_MountOnlyAfterOpen ==
    \A k \in Calls("MkdirAll") \cup Calls("Mount") :
        \E j \in OkCalls("CryptOpen") : j < k /\ log[j].attempt = log[k].attempt

\* C29: the device-mapper name that CryptOpen and Mount are called with is
\* never empty; for a record without MappedName it is the name that
\* MakeDeviceMapperName derives from the device path.
C29_MapperNameNotEmpty ==
    Calls("CryptOpen") \cup Calls("Mount") # {} =>
        /\ ufs.dmName # ""
        /\ unlockRec.MappedName = "" => ufs.dmName = MakeDeviceMapperName(DevPath)

InUnlockFS == pc \in {"u_find", "u_open", "u_mkdir", "u_mount", "u_check", "u_end", "done"}

\* C11: after an answer Rejected or a failed RPC, AutoOnlineUnlockFS gives
\* up only when more than maxRetrySec seconds have passed since it began;
\* otherwise it sleeps AUTO_UNLOCK_RETRY_INTERVAL_SEC seconds and calls
\* AutoRetrieve again; and a grant, on whatever attempt, is followed by
\* UnlockFS with the granted record.
C11_RetriesUntilDeadline ==
    [][/\ pc = "a_rpc" =>
             /\ LastCall'.call = "AutoRetrieveKey"
             /\ LastCall'.kind \in {"rejected", "error"} =>
                   (pc' = "a_deadline" /\ result' = "none")
             /\ LastCall'.kind = "granted" =>
                   /\ pc' = "u_find"
                   /\ unlockRec' \in Records
                   /\ ufs'.maxAttempts = AUTO_UNLOCK_ATTEMPTS
       /\ pc = "a_deadline" =>
             IF clock - auto.begin <= auto.maxRetrySec
             THEN /\ pc' = "a_rpc"
                  /\ clock' = clock + AUTO_UNLOCK_RETRY_INTERVAL_SEC
                  /\ log' = Append(log, LogEntry("Sleep", TRUE, -1, ""))
                  /\ result' = "none"
             ELSE pc' = "done" /\ result' = "error"
       /\ (entry = "AutoOnlineUnlockFS" /\ pc # "done" /\ pc' = "done" /\ ~InUnlockFS)
             => (LastCall'.kind = "missing" \/ clock' - auto'.begin > auto'.maxRetrySec)
      ]_vars

\* C11 witness: the first answer was Rejected, the routine slept and asked
\* again before the deadline, was granted, and the unlock was performed.
C11_Witness ==
    /\ entry = "AutoOnlineUnlockFS"
    /\ pc = "done"
    /\ result = "nil"
    /\ auto.maxRetrySec = MaxRetrySec
    /\ Len(log) >= 4
    /\ log[1].kind = "rejected"
    /\ log[2].call = "Sleep"
    /\ log[3].kind = "granted"
    /\ OkCalls("CryptOpen") # {}

\* the most AutoRetrieve calls a run with this maxRetrySec can make: a call
\* is followed by another only while the deadline has not passed, and each
\* further call comes at least one sleep later
MaxCalls(maxRetrySec) ==
    IF maxRetrySec < 0 THEN 1
    ELSE maxRetrySec \div AUTO_UNLOCK_RETRY_INTERVAL_SEC + 2

\* C12: AutoOnlineUnlockFS terminates: the number of its AutoRetrieve calls
\* is bounded by its maxRetrySec, and once invoked it always returns (on
\* the first grant, after the unlock; on missing; or giving up).
C12_AlwaysTerminates ==
    /\ [](entry = "AutoOnlineUnlockFS" =>
             Cardinality(Calls("AutoRetrieveKey")) <= MaxCalls(auto.maxRetrySec))
    /\ (entry = "AutoOnlineUnlockFS") ~> (pc = "done" /\ result # "none")

\* C12 witness: the routine has given up after the deadline, having called
\* as often as its maxRetrySec allows.
C12_Witness ==
    /\ entry = "AutoOnlineUnlockFS"
    /\ pc = "done"
    /\ result = "error"
    /\ auto.maxRetrySec = MaxRetrySec
    /\ LastCall.kind \in {"rejected", "error"}
    /\ Cardinality(Calls("AutoRetrieveKey")) = MaxCalls(MaxRetrySec)

\* C13: with maxRetrySec zero or negative AutoOnlineUnlockFS makes exactly
\* one AutoRetrieve call and returns after it: it never sleeps and never
\* calls a second time.
C13_SingleAttemptWhenNoRetry ==
    (entry = "AutoOnlineUnlockFS" /\ auto.maxRetrySec <= 0) =>
        /\ Cardinality(Calls("AutoRetrieveKey")) <= 1
        /\ \A k \in Calls("Sleep") : log[k].attempt # -1
        /\ pc \notin {"a_rpc", "a_deadline"} => Cardinality(Calls("AutoRetrieveKey")) = 1

(***************************************************************************)
(* The two client loops at length: specification SpecLoops                 *)
(*                                                                         *)
(* routine.ReportAlive with RPC errors, and AutoOnlineUnlockFS with a      *)
(* deadline far enough away for its failure messages to be suppressed.     *)
(***************************************************************************)
MaxReports == 9         \* ReportAlive calls followed
MaxLongRetrySec == 36   \* maxRetrySec of the long AutoOnlineUnlockFS run

\* mutant: an RPC error ends the loop like a rejection
ReportAfterResponseStopsOnError(rejected, err) ==
    IF rejected # {} \/ err # "nil" THEN "return" ELSE "sleep"

\* lines 197-199
ReportAfterResponse(rejected, err) ==
    IF rejected # {} THEN "return" ELSE "sleep"

\* line 188
CallReportAlive ==
    /\ Callable
    /\ entry' = "ReportAlive"
    /\ report' = [uuid |-> TheUUID, numFailures |-> 0]
    /\ progressOut' = <<"begin">>
    /\ pc' = "r_rpc"
    /\ log' = <<>>
    /\ result' = "none"
    /\ clock' = 0
    /\ UNCHANGED <<unlockRec, dev, ufs, auto, erase, srvRecord, srvVars, certVars, admVars, cmdVars>>

\* lines 192-213: one ReportAlive call and what follows from its answer
ReportCall ==
    /\ pc = "r_rpc"
    /\ Cardinality(Calls("ReportAlive")) < MaxReports
    /\ \E kind \in {"ok", "rejected", "error"}, d \in 0..MaxRpcSec :
          LET rejected == IF kind = "rejected" THEN {report.uuid} ELSE {}
              err == IF kind = "error" THEN "rpc failed" ELSE "nil"
          IN /\ clock' = clock + d
             /\ log' = Append(log, LogEntry("ReportAlive", err = "nil", -1, kind))
             /\ IF ReportAfterResponse(rejected, err) = "return"
                THEN /\ result' = "error"
                     /\ pc' = "done"
                     /\ UNCHANGED <<report, progressOut>>
                ELSE /\ IF err = "nil"
                        THEN /\ progressOut' = IF report.numFailures > 0
                                               THEN Append(progressOut, "succeeded")
                                               ELSE progressOut
                             /\ report' = [report EXCEPT !.numFailures = 0]
                        ELSE /\ progressOut' = progressOut \o FailurePrint(report.numFailures)
                             /\ report' = [report EXCEPT !.numFailures = @ + 1]
                     /\ pc' = "r_sleep"
                     /\ UNCHANGED result
    /\ UNCHANGED <<entry, unlockRec, dev, ufs, auto, erase, srvRecord, srvVars, certVars, admVars, cmdVars>>

\* line 214
ReportSleep ==
    /\ pc = "r_sleep"
    /\ log' = Append(log, LogEntry("Sleep", TRUE, -1, ""))
    /\ clock' = ReportAliveSleep(clock)
    /\ pc' = "r_rpc"
    /\ UNCHANGED <<entry, unlockRec, dev, ufs, auto, erase, result, srvRecord, progressOut,
                   report, srvVars, certVars, admVars, cmdVars>>

InitLoops == InitClient /\ dev.found /\ dev.luks

NextLoops ==
    \/ CallReportAlive
    \/ ReportCall
    \/ ReportSleep
    \/ CallAutoOnlineUnlockFS(MaxLongRetrySec)
    \/ AutoCall
    \/ AutoDeadline
    \/ Exit

SpecLoops == InitLoops /\ [][NextLoops]_vars

\* C14: the ReportAlive loop returns exactly when the answer to its call
\* carries a non-empty rejected set; after any other answer, an RPC error
\* included, it sleeps REPORT_ALIVE_INTERVAL_SEC seconds and calls again.
C14_ReporterStopsOnlyOnRejection ==
    [][/\ pc = "r_rpc" =>
             /\ LastCall'.call = "ReportAlive"
             /\ IF LastCall'.kind = "rejected"
                THEN pc' = "done" /\ result' = "error"
                ELSE pc' = "r_sleep" /\ result' = "none"
       /\ pc = "r_sleep" =>
             /\ pc' = "r_rpc"
             /\ result' = "none"
             /\ clock' = clock + REPORT_ALIVE_INTERVAL_SEC
             /\ log' = Append(log, LogEntry("Sleep", TRUE, -1, ""))
      ]_vars

\* C14 witness: the loop went on after an RPC error and after a good answer
\* and has returned on a rejection.
C14_Witness ==
    /\ entry = "ReportAlive"
    /\ pc = "done"
    /\ result = "error"
    /\ Len(log) = 5
    /\ log[1].kind = "error"
    /\ log[3].kind = "ok"
    /\ log[5].kind = "rejected"

\* a call of one of the two loops that failed
IsFailure(e) ==
    /\ e.call \in {"AutoRetrieveKey", "ReportAlive"}
    /\ e.kind \in {"rejected", "error"}

RECURSIVE FailureRun(_)
\* the number of consecutive failed calls the call log ends with
FailureRun(l) ==
    IF l = <<>> THEN 0
    ELSE LET e == l[Len(l)]
             front == SubSeq(l, 1, Len(l) - 1)
         IN IF e.call = "Sleep" THEN FailureRun(front)
            ELSE IF IsFailure(e) THEN 1 + FailureRun(front)
            ELSE 0

IsFailureMessage(m) == m \in {"failed", "suppress"}

\* what the n-th failure of a run of consecutive failures is to print
MessageOfNth(n) ==
    IF n <= 5 THEN <<"failed">>
    ELSE IF n = 6 THEN <<"suppress">>
    ELSE <<>>

MaxCmdTime == 2         \* the clock stops here
MaxAlive == 1           \* grants and alive reports the server receives
Validity == 2           \* expireMin
PendingCommandUmount == "umount"

\* keydb.Record.AddPendingCommand
AddPendingCommand(rec, ip, cmd) ==
    [rec EXCEPT !.PendingCommands[ip] = Append(@, cmd)]

\* keydb.Record.ClearPendingCommands
ClearPendingCommands(rec) == [rec EXCEPT !.PendingCommands = NoCommands]

\* section 3: a command is visible while now is in [ValidFrom, ValidFrom+Validity)
Visible(cmd, t) == cmd.ValidFrom <= t /\ t < cmd.ValidFrom + cmd.Validity

\* section 4.3, PollCommand: the commands of the caller's IP that may be returned
Pollable(rec, ip, t) ==
    {i \in DOMAIN rec.PendingCommands[ip] :
        /\ ~rec.PendingCommands[ip][i].SeenByClient
        /\ Visible(rec.PendingCommands[ip][i], t)}

Lowest(S) == CHOOSE i \in S : \A j \in S : i <= j

\* section 4.3, PollCommand: mark SeenByClient
MarkSeen(rec, ip, id) ==
    [rec EXCEPT !.PendingCommands[ip] =
        [i \in DOMAIN @ |-> IF @[i].id = id THEN [@[i] EXCEPT !.SeenByClient = TRUE]
                                            ELSE @[i]]]

\* section 4.3, AutoRetrieve step 5: what a grant records
RecordGrant(rec, t) ==
    [rec EXCEPT !.LastRetrieval = t, !.AliveMessages = @ + 1]

\* section 4.3, ReportAlive: what an alive report records
RecordAlive(rec) == [rec EXCEPT !.AliveMessages = @ + 1]

\* section 4.1, Upsert: the file and the in-memory view after it; on an I/O
\* error both are as they were
UpsertFile(file, view, rec, ok) ==
    IF ok THEN [file |-> rec, view |-> rec, err |-> FALSE]
          ELSE [file |-> file, view |-> view, err |-> TRUE]

InitCommands ==
    /\ ServerIdle
    /\ CertIdle
    /\ ClientIdle
    /\ cmdNow = 0
    /\ disk = FreshRecord
    /\ mem = FreshRecord
    /\ ideal = FreshRecord
    /\ opr = NoOperator
    /\ delivered = [id \in CmdIds |-> 0]
    /\ running \in BOOLEAN
    /\ AdmIdle

\* ---- the server (spec-modelled)
SrvPollCommand(ip) ==
    /\ running
    /\ LET S == Pollable(mem, ip, cmdNow)
       IN IF S = {}
          THEN UNCHANGED <<mem, disk, ideal, delivered>>
          ELSE LET id == mem.PendingCommands[ip][Lowest(S)].id
                   u == UpsertFile(disk, mem, MarkSeen(mem, ip, id), TRUE)
               IN /\ mem' = u.view
                  /\ disk' = u.file
                  /\ ideal' = MarkSeen(ideal, ip, id)
                  /\ delivered' = [delivered EXCEPT ![id] = @ + 1]
    /\ UNCHANGED <<cmdNow, opr, running, srvVars, certVars, admVars, cliVars>>

SrvGrant ==
    /\ running
    /\ ideal.AliveMessages < MaxAlive
    /\ LET u == UpsertFile(disk, mem, RecordGrant(mem, cmdNow), TRUE)
       IN /\ mem' = u.view
          /\ disk' = u.file
    /\ ideal' = RecordGrant(ideal, cmdNow)
    /\ UNCHANGED <<cmdNow, opr, delivered, running, srvVars, certVars, admVars, cliVars>>

SrvAlive ==
    /\ running
    /\ ideal.AliveMessages < MaxAlive
    /\ LET u == UpsertFile(disk, mem, RecordAlive(mem), TRUE)
       IN /\ mem' = u.view
          /\ disk' = u.file
    /\ ideal' = RecordAlive(ideal)
    /\ UNCHANGED <<cmdNow, opr, delivered, running, srvVars, certVars, admVars, cliVars>>

\* ---- the operator (command/server.go)
\* what the command does to the record it loaded
Mutate(kind, rec, ip, cmd) ==
    CASE kind = "send" -> AddPendingCommand(rec, ip, cmd)
      [] kind = "clear" -> ClearPendingCommands(rec)
      [] OTHER -> [rec EXCEPT !.AllowedClients = IF @ = <<>> THEN <<"H1">> ELSE <<>>]

\* the Ping RPC over the domain socket (section 4.2): answered without error
\* by a running server that is given its password
Ping(isRunning, pw) == isRunning /\ ValidatePassword(pw)

\* mutant: the command goes on to OpenKeyDB whatever Ping returned
AfterPingIgnoresError(pingErr) == "opened"

\* SendCommand 358-360, ClearPendingCommands 407-409: return on Ping's error
AfterPing(pingErr) == IF pingErr THEN "idle" ELSE "opened"

\* SendCommand 352-366, ClearPendingCommands 401-414, AddAllowedClient 204-207:
\* Ping with the password where the command asks for one, then OpenKeyDB
OperatorOpen(kind) ==
    /\ opr.pc = "idle"
    /\ kind = "send" => opr.sent < MaxCmds
    /\ \E pw \in Passwords :
          LET pingErr == kind \in {"send", "clear"} /\ ~Ping(running, pw)
          IN IF AfterPing(pingErr) = "idle"
             THEN opr' = [opr EXCEPT !.err = "ping", !.restarted = FALSE]
             ELSE opr' = [opr EXCEPT !.pc = "opened", !.kind = kind, !.rec = disk,
                                     !.err = IF pingErr THEN "ping" ELSE "nil",
                                     !.restarted = FALSE,
                                     !.ping = IF kind \notin {"send", "clear"} THEN "none"
                                              ELSE IF pingErr THEN "failed" ELSE "ok"]
    /\ UNCHANGED <<cmdNow, disk, mem, ideal, delivered, running,
                   srvVars, certVars, admVars, cliVars>>

\* mutant: UpdateRecord goes on to the restart whether or not Upsert failed
AfterUpsertIgnoresError(kind, err) ==
    IF kind = "edit" THEN "restart" ELSE IF err THEN "idle" ELSE "written"

\* UpdateRecord 187-191, SendCommand 389-393: where the command goes after Upsert
AfterUpsert(kind, err) ==
    IF err THEN "idle" ELSE IF kind = "edit" THEN "restart" ELSE "written"

\* SendCommand 382-391, ClearPendingCommands 415-419, UpdateRecord 187-189
OperatorUpsert ==
    /\ opr.pc = "opened"
    /\ \E ok \in BOOLEAN, ip \in CmdIPs :
          LET cmd == [id |-> opr.sent + 1, ValidFrom |-> cmdNow, Validity |-> Validity,
                      Content |-> PendingCommandUmount, SeenByClient |-> FALSE]
              u == UpsertFile(disk, opr.rec, Mutate(opr.kind, opr.rec, ip, cmd), ok)
          IN /\ disk' = u.file
             /\ ideal' = IF ok THEN Mutate(opr.kind, ideal, ip, cmd) ELSE ideal
             /\ opr' = [opr EXCEPT !.pc = AfterUpsert(opr.kind, u.err),
                                   !.kind = IF u.err THEN "none" ELSE @,
                                   !.rec = FreshRecord,
                                   !.ping = IF u.err THEN "none" ELSE @,
                                   !.err = IF u.err THEN "upsert" ELSE "nil",
                                   !.sent = IF ok /\ opr.kind = "send" THEN @ + 1 ELSE @]
    /\ UNCHANGED <<cmdNow, mem, delivered, running, srvVars, certVars, admVars, cliVars>>

\* SendCommand 393, ClearPendingCommands 421: ReloadRecord, its error not looked at
OperatorReload ==
    /\ opr.pc = "written"
    /\ \E ok \in BOOLEAN :
          mem' = IF ok /\ running THEN disk ELSE mem
    /\ opr' = [opr EXCEPT !.pc = "idle", !.kind = "none", !.ping = "none"]
    /\ UNCHANGED <<cmdNow, disk, ideal, delivered, running,
                   srvVars, certVars, admVars, cliVars>>

\* UpdateRecord 191-199: restart the server if it is running
OperatorRestart ==
    /\ opr.pc = "restart"
    /\ IF running
       THEN \E ok \in BOOLEAN :
               /\ mem' = IF ok THEN disk ELSE mem
               /\ opr' = [opr EXCEPT !.pc = "idle", !.kind = "none",
                                     !.err = IF ok THEN "nil" ELSE "restart",
                                     !.restarted = ok]
       ELSE /\ opr' = [opr EXCEPT !.pc = "idle", !.kind = "none"]
            /\ UNCHANGED mem
    /\ UNCHANGED <<cmdNow, disk, ideal, delivered, running,
                   srvVars, certVars, admVars, cliVars>>

CmdTick ==
    /\ cmdNow < MaxCmdTime
    /\ cmdNow' = cmdNow + 1
    /\ UNCHANGED <<disk, mem, ideal, opr, delivered, running,
                   srvVars, certVars, admVars, cliVars>>

NextCommands ==
    \/ \E ip \in CmdIPs : SrvPollCommand(ip)
    \/ SrvGrant
    \/ SrvAlive
    \/ \E kind \in {"send", "clear"} : OperatorOpen(kind)
    \/ OperatorUpsert
    \/ OperatorReload
    \/ CmdTick

SpecCommands == InitCommands /\ [][NextCommands]_vars

\* C16: a command that SendCommand stored is carried by exactly one
\* PollCommand answer: once it was returned and marked SeenByClient, no
\* later poll returns it again.
C16_ReturnedExactlyOnce == \A id \in CmdIds : delivered[id] <= 1

\* C17: no update is lost: when SendCommand or ClearPendingCommands is
\* through and the server's record agrees with the record file, that record
\* holds every update made to it, the server's (grants, alive reports, seen
\* marks) and the operator's (commands sent or cleared).
C17_NoUpdateLost ==
    [][(opr.pc = "written" /\ opr'.pc = "idle" /\ running /\ mem' = disk')
          => mem' = ideal']_vars

\* C24: SendCommand and ClearPendingCommands change no record unless the
\* password was proven: a run whose Ping failed ends there with the error,
\* with the record file and the server's record as they were, and the
\* commands are past OpenKeyDB (about to write the file or to send
\* ReloadRecord) only after a Ping that succeeded.
C24_NoChangeWithoutPassword ==
    [][opr' # opr =>
          /\ opr'.err = "ping" => opr'.pc = "idle" /\ disk' = disk /\ mem' = mem
          /\ (opr.kind \in {"send", "clear"} /\ opr.pc \in {"opened", "written"})
                => opr.ping = "ok"]_vars

\* C24 witness: after one command was sent, a later run failed at Ping and
\* returned; the record file still holds that one command.
C24_Witness ==
    /\ opr.pc = "idle"
    /\ opr.err = "ping"
    /\ opr.sent = 1
    /\ disk # FreshRecord

(***************************************************************************)
(* UpdateRecord beside the running server: specification SpecUpdate        *)
(***************************************************************************)
NextUpdate ==
    \/ OperatorOpen("edit")
    \/ OperatorUpsert
    \/ OperatorRestart
    \/ SrvGrant
    \/ SrvAlive
    \/ CmdTick

SpecUpdate == InitCommands /\ [][NextUpdate]_vars

\* C20: when Upsert fails in UpdateRecord the record file and the server's
\* record stay as they were and the command returns the error without a
\* restart; when it succeeds and the server is running, the command goes on
\* to restart it, and the restarted server holds the record of the file.
C20_FailedUpsertChangesNothing ==
    [][/\ (opr.pc = "opened" /\ opr.kind = "edit" /\ opr' # opr) =>
             IF opr'.err = "upsert"
             THEN /\ disk' = disk
                  /\ mem' = mem
                  /\ opr'.pc = "idle"
                  /\ ~opr'.restarted
             ELSE /\ opr'.err = "nil"
                  /\ opr'.pc = "restart"
                  /\ disk' # disk
       /\ (opr.pc = "restart" /\ opr' # opr) =>
             /\ opr'.pc = "idle"
             /\ running => (opr'.restarted \/ opr'.err = "restart")
             /\ opr'.restarted => (running /\ mem' = disk)
             /\ disk' = disk
      ]_vars

\* C20 witness: a first edit was written and the server restarted with it; a
\* later edit failed in Upsert and left file and server with the first one.
C20_Witness ==
    /\ opr.pc = "idle"
    /\ opr.err = "upsert"
    /\ ~opr.restarted
    /\ disk.AllowedClients = <<"H1">>
    /\ mem.AllowedClients = <<"H1">>

(***************************************************************************)
(* list-keys and show-key: specification SpecList                          *)
(*                                                                         *)
(* The commands load the record, call rec.RemoveDeadHosts() and print the  *)
(* number of keys of rec.AliveMessages as the count of active computers.   *)
(* RemoveDeadHosts itself is modelled from section 4.1 of the              *)
(* specification.                                                          *)
(***************************************************************************)
ListTimestamps == {0, 10, 20}       \* when alive messages were recorded
ListTimes == {20, 29, 30, 40}       \* when the command runs
ListHosts == {"H1", "H2"}

\* the alive messages one host may have left: none, or up to MaxMsgs in the
\* order they came
AliveHistories(h) ==
    {q \in SeqsUpTo(ListTimestamps, MaxMsgs) :
        \A i \in 1..Len(q) - 1 : q[i] <= q[i + 1]}

AliveMessageOf(h, t) == [IP |-> IPOf(h), Hostname |-> h, Timestamp |-> t]

\* key bytes a record may hold: two keys of one length, one of another
ListKeyBytes == {<<1, 2>>, <<3, 4>>, <<5>>}

\* the record together with its Key
WithKey(rec, key) ==
    [MaxActive |-> rec.MaxActive,
     AllowedClients |-> rec.AllowedClients,
     AliveIntervalSec |-> rec.AliveIntervalSec,
     AliveCount |-> rec.AliveCount,
     LastRetrieval |-> rec.LastRetrieval,
     AliveMessages |-> rec.AliveMessages,
     Key |-> key]

\* the record with the given history for each host; a host without messages
\* is not a key of AliveMessages
RecordWithHistory(hist) ==
    LET hosts == {h \in ListHosts : hist[h] # <<>>}
        ipsOf == {IPOf(h) : h \in hosts}
        hostOf(ip) == CHOOSE h \in hosts : IPOf(h) = ip
    IN [NewRecord(1, <<>>, 2) EXCEPT !.AliveMessages =
           [ip \in ipsOf |->
               [i \in 1..Len(hist[hostOf(ip)]) |->
                   AliveMessageOf(hostOf(ip), hist[hostOf(ip)][i])]]]

InitList ==
    /\ lastResp = NoResp
    /\ overridden = {}
    /\ raPc = "idle"
    /\ raWake = 0
    /\ raUUID = ""
    /\ CertIdle
    /\ ClientIdle
    /\ CommandsIdle
    /\ now \in ListTimes
    /\ \E hist \in [ListHosts -> UNION {AliveHistories(h) : h \in ListHosts}],
          key \in ListKeyBytes :
          db = [u \in {"a1"} |-> WithKey(RecordWithHistory(hist), key)]
    /\ AdmIdle

\* mutant: the last column is the key, not its length
ListKeysRowShowsKey(uuid, rec) ==
    <<rec.LastRetrieval.IP, FormatInt(rec.LastRetrieval.Timestamp), uuid,
      FormatInt(rec.MaxActive), FormatInt(Len(rec.AllowedClients)),
      FormatInt(Cardinality(DOMAIN rec.AliveMessages)), rec.Key>>

\* ListKeys 171-181: the columns printed for one record, after
\* RemoveDeadHosts (ID and MountPoint are not fields of the modelled record)
ListKeysRow(uuid, rec) ==
    <<rec.LastRetrieval.IP, FormatInt(rec.LastRetrieval.Timestamp), uuid,
      FormatInt(rec.MaxActive), FormatInt(Len(rec.AllowedClients)),
      FormatInt(Cardinality(DOMAIN rec.AliveMessages)), FormatInt(Len(rec.Key))>>

\* ShowKey 311-345: the lines printed for the record, after RemoveDeadHosts
ShowKeyLines(uuid, rec) ==
    <<uuid, rec.AllowedClients, FormatInt(rec.MaxActive),
      FormatInt(rec.AliveCount * rec.AliveIntervalSec),
      rec.LastRetrieval.IP, rec.LastRetrieval.Hostname,
      FormatInt(rec.LastRetrieval.Timestamp),
      FormatInt(Cardinality(DOMAIN rec.AliveMessages)), rec.AliveMessages>>

\* mutant: the count is taken from the record as it was loaded
ActiveComputersUnpruned(rec, t) == Cardinality(DOMAIN rec.AliveMessages)

\* ListKeys 170-178, ShowKey 310-323: rec.RemoveDeadHosts(), then
\* len(rec.AliveMessages)
ActiveComputers(rec, t) == Cardinality(DOMAIN RemoveDeadHosts(rec, t).AliveMessages)

\* ListKeys 159-184
ListKeys ==
    /\ opr.kind = "none"
    /\ opr' = [opr EXCEPT !.kind = "list-keys",
                          !.rec = RemoveDeadHosts(db["a1"], now),
                          !.out = <<ActiveComputers(db["a1"], now)>>,
                          !.row = ListKeysRow("a1", RemoveDeadHosts(db["a1"], now))]
    /\ UNCHANGED <<cmdNow, disk, mem, ideal, delivered, running, srvVars, certVars, admVars, cliVars>>

\* ShowKey 300-347
ShowKey(uuid) ==
    /\ opr.kind = "none"
    /\ IF uuid \in DOMAIN db
       THEN LET rec == RemoveDeadHosts(db[uuid], now)
            IN opr' = [opr EXCEPT !.kind = "show-key",
                                  !.rec = rec,
                                  !.out = <<ActiveComputers(db[uuid], now)>> \o
                                          [i \in 1..Cardinality(DOMAIN rec.AliveMessages) |->
                                              "alive messages"],
                                  !.row = ShowKeyLines(uuid, rec)]
       ELSE opr' = [opr EXCEPT !.kind = "show-key", !.err = "not found"]
    /\ UNCHANGED <<cmdNow, disk, mem, ideal, delivered, running, srvVars, certVars, admVars, cliVars>>

NextList ==
    \/ ListKeys
    \/ \E uuid \in AllUUIDs : ShowKey(uuid)

SpecList == InitList /\ [][NextList]_vars

\* C19: after RemoveDeadHosts every alive message left in the record is
\* younger than AliveIntervalSec x AliveCount, the hosts left as keys of
\* AliveMessages are exactly the hosts that have such a message, and the
\* count of active computers that list-keys and show-key print is the
\* number of those hosts.
C19_OnlyLiveHostsRemain ==
    (opr.kind \in {"list-keys", "show-key"} /\ opr.err = "nil") =>
        LET rec == opr.rec
        IN /\ \A ip \in DOMAIN rec.AliveMessages :
                 /\ Len(rec.AliveMessages[ip]) > 0
                 /\ \A i \in 1..Len(rec.AliveMessages[ip]) :
                       now - rec.AliveMessages[ip][i].Timestamp
                          < rec.AliveIntervalSec * rec.AliveCount
           /\ DOMAIN rec.AliveMessages = HostsAliveNow(db["a1"])
           /\ opr.out[1] = Cardinality(HostsAliveNow(db["a1"]))

\* C19 witness: list-keys ran on a record with two hosts, one of them with
\* expired messages only, and printed one active computer.
C19_Witness ==
    /\ opr.kind = "list-keys"
    /\ DOMAIN db["a1"].AliveMessages = {IPOf("H1"), IPOf("H2")}
    /\ DOMAIN opr.rec.AliveMessages = {IPOf("H2")}
    /\ Len(db["a1"].AliveMessages[IPOf("H2")]) = 2
    /\ Len(opr.rec.AliveMessages[IPOf("H2")]) = 1
    /\ opr.out = <<1>>

\* what the command that ran prints for a record
OutputOf(kind, rec) ==
    IF kind = "list-keys" THEN ListKeysRow("a1", RemoveDeadHosts(rec, now))
    ELSE ShowKeyLines("a1", RemoveDeadHosts(rec, now))

\* C23: what list-keys and show-key print does not depend on the content
\* of Key: for the record with any other key of the same length the output
\* is the same, and for a key of any length it differs at most in the
\* length column of list-keys.
C23_OutputIndependentOfKey ==
    (opr.kind \in {"list-keys", "show-key"} /\ opr.err = "nil") =>
        \A key \in ListKeyBytes :
            LET other == OutputOf(opr.kind, [db["a1"] EXCEPT !.Key = key])
            IN /\ Len(key) = Len(db["a1"].Key) => other = opr.row
               /\ Len(other) = Len(opr.row)
               /\ \A i \in DOMAIN other :
                     other[i] # opr.row[i] =>
                        /\ opr.kind = "list-keys"
                        /\ i = Len(other)
                        /\ other[i] = FormatInt(Len(key))
                        /\ opr.row[i] = FormatInt(Len(db["a1"].Key))

\* C23 witness: list-keys printed the row of a record whose key is 1, 2;
\* the row ends with the length 2.
C23_Witness ==
    /\ opr.kind = "list-keys"
    /\ db["a1"].Key = <<1, 2>>
    /\ opr.row[Len(opr.row)] = <<"2">>
    /\ Len(opr.row) = 7

(***************************************************************************)
(* A host waiting for a key in use: specifications SpecWait, SpecWaitLive  *)
(*                                                                         *)
(* H1 holds the only slot of a record with MaxActive = 1 and has sent its  *)
(* last alive message; H2 runs AutoOnlineUnlockFS against the server.  The *)
(* routine starts at second 0 of a clock that client and server share;     *)
(* H1's last message is older than that.                                   *)
(***************************************************************************)
WaitLastAlive == {-15, -14, -10, 0}     \* Timestamp of H1's last alive message
WaitRetrySecs == {MaxRetrySec, MaxLongRetrySec}
WaitRecords == {r \in Records : r.MappedName = "secret" /\ ~r.AutoEncyption}

InitWait ==
    /\ pc = "idle"
    /\ entry = "none"
    /\ unlockRec = NoRecord
    /\ dev = [found |-> TRUE, luks |-> TRUE, openName |-> "", MountPoint |-> ""]
    /\ ufs = NoUfs
    /\ auto = NoAuto
    /\ erase = NoErase
    /\ log = <<>>
    /\ result = "none"
    /\ clock = 0
    /\ srvRecord = TRUE
    /\ progressOut = <<>>
    /\ report = NoReport
    /\ now = 0
    /\ \E t \in WaitLastAlive :
          db = [u \in {TheUUID} |->
                   AppendAlive(NewRecord(1, <<>>, 2), AliveMessageOf("H1", t))]
    /\ lastResp = NoResp
    /\ overridden = {}
    /\ raPc = "idle"
    /\ raWake = 0
    /\ raUUID = ""
    /\ CertIdle
    /\ CommandsIdle
    /\ AdmIdle

\* lines 144-163 with the server answering: one AutoRetrieveKey call of H2
\* and what follows from its answer
AutoCallServer ==
    /\ pc = "a_rpc"
    /\ \E d \in 0..MaxRpcSec, r \in WaitRecords :
          LET acc == AutoRetrieveKey(EmptyResp(db), <<TheUUID>>, IdentOf("H2"),
                                     IPOf("H2"), "H2", clock + d)
              resp == [Granted |-> acc.Granted, Rejected |-> acc.Rejected,
                       Missing |-> acc.Missing]
              kind == IF TheUUID \in acc.Granted THEN "granted"
                      ELSE IF TheUUID \in acc.Rejected THEN "rejected" ELSE "missing"
              todo == AfterResponse(resp, "nil", TheUUID)
          IN /\ kind # "granted" => r = CHOOSE x \in WaitRecords : TRUE
             /\ db' = acc.db
             /\ clock' = clock + d
             /\ log' = Append(log, LogEntry("AutoRetrieveKey", TRUE, -1, kind))
             /\ CASE todo = "unlock" ->
                       /\ unlockRec' = r
                       /\ ufs' = [NoUfs EXCEPT !.maxAttempts = AUTO_UNLOCK_ATTEMPTS]
                       /\ pc' = "u_find"
                       /\ auto' = [auto EXCEPT !.resp = resp, !.err = "nil"]
                       /\ UNCHANGED result
                  [] todo = "missing" ->
                       /\ result' = "error"
                       /\ pc' = "done"
                       /\ auto' = [auto EXCEPT !.resp = resp, !.err = "nil"]
                       /\ UNCHANGED <<unlockRec, ufs>>
                  [] OTHER ->
                       /\ auto' = [auto EXCEPT !.resp = resp,
                                               !.err = ErrAfterRejected(resp, "nil")]
                       /\ pc' = "a_deadline"
                       /\ UNCHANGED <<unlockRec, ufs, result>>
    /\ UNCHANGED <<entry, dev, erase, srvRecord, progressOut, report, now, lastResp,
                   overridden, raPc, raWake, raUUID, certVars, admVars, cmdVars>>

WaitStep ==
    \/ AutoCallServer
    \/ AutoDeadline
    \/ UnlockFind \/ UnlockOpen \/ UnlockMkdir \/ UnlockMount \/ UnlockCheck \/ UnlockEnd

NextWait ==
    \/ \E maxRetrySec \in WaitRetrySecs : CallAutoOnlineUnlockFS(maxRetrySec)
    \/ WaitStep

SpecWait == InitWait /\ [][NextWait]_vars

\* every call returns, and the routine is scheduled
SpecWaitLive == SpecWait /\ WF_vars(WaitStep)

\* the second from which H1 counts as dead, if it still has an alive message
H1Lapse(rec) ==
    LET msgs == rec.AliveMessages[IPOf("H1")]
    IN msgs[Len(msgs)].Timestamp + rec.AliveIntervalSec * rec.AliveCount

H1Holds == IPOf("H1") \in DOMAIN db[TheUUID].AliveMessages

WasGranted == \E k \in Calls("AutoRetrieveKey") : log[k].kind = "granted"

\* C18: with MaxActive = 1, an AutoRetrieve of H2 that the server handles
\* when H1's last alive message is at least AliveIntervalSec x AliveCount
\* seconds old is granted; and H2 waiting in AutoOnlineUnlockFS is granted
\* eventually if H1's liveness window ends no later than the deadline
\* begin + maxRetrySec.
C18_WaitingHostGranted ==
    /\ [][(pc = "a_rpc" /\ H1Holds /\ db[TheUUID].MaxActive = 1
              /\ clock' >= H1Lapse(db[TheUUID]))
            => (LastCall'.kind = "granted" /\ pc' = "u_find")]_vars
    /\ (entry = "AutoOnlineUnlockFS" /\ H1Holds
           /\ H1Lapse(db[TheUUID]) <= auto.begin + auto.maxRetrySec) ~> WasGranted

\* C18 witness: H2 was rejected while H1 counted as alive, went on retrying
\* every 5 seconds, and was granted after H1's window had ended.
C18_Witness ==
    /\ entry = "AutoOnlineUnlockFS"
    /\ Cardinality({k \in Calls("AutoRetrieveKey") : log[k].kind = "rejected"}) >= 2
    /\ WasGranted
    /\ DOMAIN db[TheUUID].AliveMessages = {IPOf("H2")}
    /\ pc = "done"
    /\ result = "nil"

(***************************************************************************)
(* add-allowed-client and remove-allowed-client: specification SpecAllow   *)
(*                                                                         *)
(* main dispatches the command; AddAllowedClient loads the record file,    *)
(* changes AllowedClients and hands the record to UpdateRecord.            *)
(***************************************************************************)
AllowClients == {"c1", "c2", "c3"}
AllowCommands == {"add-allowed-client", "remove-allowed-client"}

\* the AllowedClients a record file may hold: no client twice
AllowLists == {q \in SeqsUpTo(AllowClients, 2) : \A i, j \in DOMAIN q : q[i] = q[j] => i = j}

\* main.go 124-137: the function each of the two commands calls
MainCalls(cmd) ==
    CASE cmd = "add-allowed-client" -> "AddAllowedClient"
      [] cmd = "remove-allowed-client" -> "AddAllowedClient"

\* UpdateRecord 186-200: the record file, the server's record and what is
\* returned, for an Upsert and a restart that go well or not
UpdateRecord(file, view, rec, upsertOk, restartOk, isRunning) ==
    LET u == UpsertFile(file, file, rec, upsertOk)
    IN IF u.err
       THEN [file |-> u.file, view |-> view, err |-> "upsert", wrote |-> FALSE,
             restarted |-> FALSE]
       ELSE IF ~isRunning
       THEN [file |-> u.file, view |-> view, err |-> "nil", wrote |-> TRUE,
             restarted |-> FALSE]
       ELSE IF restartOk
       THEN [file |-> u.file, view |-> u.file, err |-> "nil", wrote |-> TRUE,
             restarted |-> TRUE]
       ELSE [file |-> u.file, view |-> view, err |-> "restart", wrote |-> TRUE,
             restarted |-> FALSE]

\* mutant: the client is appended whether or not the list has it
ClientIsNewAlways(clients, newClient) == TRUE

\* AddAllowedClient 212: the condition under which the client is appended
ClientIsNew(clients, newClient) == ~Contains(clients, newClient)

\* AddAllowedClient 202-218
AddAllowedClient(file, view, uuid, newClient, upsertOk, restartOk, isRunning) ==
    IF uuid # TheUUID
    THEN [file |-> file, view |-> view, err |-> "not found", wrote |-> FALSE,
          restarted |-> FALSE]
    ELSE IF ClientIsNew(file.AllowedClients, newClient)
    THEN UpdateRecord(file, view,
                      [file EXCEPT !.AllowedClients = Append(@, newClient)],
                      upsertOk, restartOk, isRunning)
    ELSE [file |-> file, view |-> view, err |-> "nil", wrote |-> FALSE,
          restarted |-> FALSE]

InitAllow ==
    /\ ServerIdle
    /\ CertIdle
    /\ ClientIdle
    /\ cmdNow = 0
    /\ \E q \in AllowLists : disk = [FreshRecord EXCEPT !.AllowedClients = q]
    /\ mem = disk
    /\ ideal = disk
    /\ opr = NoOperator
    /\ delivered = [id \in CmdIds |-> 0]
    /\ running \in BOOLEAN
    /\ AdmIdle

\* main.go 124-137: one run of the command; opr keeps the record as it was
\* loaded, the client named and what the command returned
RunAllowedClientCommand(cmd, uuid, client) ==
    /\ \E upsertOk, restartOk \in BOOLEAN :
          LET r == CASE MainCalls(cmd) = "AddAllowedClient" ->
                          AddAllowedClient(disk, mem, uuid, client, upsertOk, restartOk,
                                           running)
          IN /\ disk' = r.file
             /\ mem' = r.view
             /\ opr' = [NoOperator EXCEPT !.kind = cmd, !.rec = disk, !.arg = client,
                                          !.err = r.err, !.wrote = r.wrote,
                                          !.restarted = r.restarted]
    /\ ideal' = disk'
    /\ UNCHANGED <<cmdNow, delivered, running, srvVars, certVars, admVars, cliVars>>

NextAllow ==
    \E cmd \in AllowCommands, uuid \in AllUUIDs, client \in AllowClients :
        RunAllowedClientCommand(cmd, uuid, client)

SpecAllow == InitAllow /\ [][NextAllow]_vars

Occurrences(list, b) == Cardinality({i \in DOMAIN list : list[i] = b})

\* C21: after remove-allowed-client for (UUID, c) has returned without
\* error, c is not among the record's AllowedClients and every other client
\* the record had is still there.
C21_RemoveRemoves ==
    (opr.kind = "remove-allowed-client" /\ opr.err = "nil") =>
        /\ ~Contains(disk.AllowedClients, opr.arg)
        /\ \A i \in DOMAIN opr.rec.AllowedClients :
              opr.rec.AllowedClients[i] # opr.arg
                 => Contains(disk.AllowedClients, opr.rec.AllowedClients[i])

\* C22: after AddAllowedClient(u, c) has returned without error the record
\* has c exactly once; if the record had c already nothing was written and
\* the record is as it was, otherwise c was appended to the clients it had.
C22_AddIsIdempotent ==
    (opr.kind \in AllowCommands /\ opr.err = "nil") =>
        /\ Occurrences(disk.AllowedClients, opr.arg) = 1
        /\ IF Contains(opr.rec.AllowedClients, opr.arg)
           THEN disk = opr.rec /\ ~opr.wrote
           ELSE disk.AllowedClients = Append(opr.rec.AllowedClients, opr.arg) /\ opr.wrote

\* C22 witness: AddAllowedClient ran on a record that had the client as the
\* first of two, wrote nothing and left both in place.
C22_Witness ==
    /\ opr.kind = "add-allowed-client"
    /\ opr.err = "nil"
    /\ opr.arg = "c1"
    /\ opr.rec.AllowedClients = <<"c1", "c2">>
    /\ disk.AllowedClients = <<"c1", "c2">>
    /\ ~opr.wrote

(***************************************************************************)
(* ManOnlineUnlockFS on a host with one encrypted device: SpecMan          *)
(***************************************************************************)
ManUnlockAttempts == 2

\* what ManualRetrieveKey answers for the one UUID, or the RPC fails
ManRespKinds == {"granted", "missing", "error"}

CallManOnlineUnlockFS ==
    /\ Callable
    /\ entry' = "ManOnlineUnlockFS"
    /\ pc' = "m_scan"
    /\ log' = <<>>
    /\ result' = "none"
    /\ man' = NoMan
    /\ UNCHANGED <<unlockRec, dev, ufs, auto, erase, clock, srvRecord, progressOut, report,
                   initSrv, ser, srvVars, certVars, cmdVars>>

\* lines 26-37: the devices to ask for are LUKS devices that are not mounted
ManScan ==
    /\ pc = "m_scan"
    /\ IF dev.found /\ dev.MountPoint = "" /\ dev.luks
       THEN pc' = "m_call" /\ UNCHANGED result
       ELSE pc' = "done" /\ result' = "error"
    /\ UNCHANGED <<entry, unlockRec, dev, ufs, auto, erase, log, clock, srvRecord,
                   progressOut, report, admVars, srvVars, certVars, cmdVars>>

\* lines 38-50: ManualRetrieveKey; a granted record goes to UnlockFS
ManCall ==
    /\ pc = "m_call"
    /\ \E kind \in ManRespKinds :
          /\ log' = Append(log, LogEntry("ManualRetrieveKey", kind # "error", 0, kind))
          /\ man' = [man EXCEPT !.resp = kind]
          /\ CASE kind = "error" ->
                    /\ result' = "error"
                    /\ pc' = "done"
                    /\ UNCHANGED <<unlockRec, ufs>>
               [] kind = "granted" ->
                    /\ \E r \in Records : unlockRec' = r
                    /\ ufs' = [NoUfs EXCEPT !.maxAttempts = ManUnlockAttempts]
                    /\ pc' = "u_find"
                    /\ UNCHANGED result
               [] OTHER ->
                    /\ pc' = "m_end"
                    /\ UNCHANGED <<unlockRec, ufs, result>>
    /\ UNCHANGED <<entry, dev, auto, erase, clock, srvRecord, progressOut, report,
                   initSrv, ser, srvVars, certVars, cmdVars>>

\* lines 48-53: hasErr after the call `UnlockFS(progressOut, rec, 2)`, whose
\* result is not looked at
HasErrAfterUnlock(hasErr, unlockResult) == hasErr

\* lines 51-53: UnlockFS has returned; man.unlockErr keeps what it returned
ManUnlocked ==
    /\ pc = "m_unlocked"
    /\ man' = [man EXCEPT !.hasErr = HasErrAfterUnlock(@, result),
                          !.unlockErr = result # "nil"]
    /\ pc' = "m_end"
    /\ UNCHANGED <<entry, unlockRec, dev, ufs, auto, erase, log, result, clock, srvRecord,
                   progressOut, report, initSrv, ser, srvVars, certVars, cmdVars>>

\* lines 54-65
ManEnd ==
    /\ pc = "m_end"
    /\ result' = IF man.hasErr THEN "error" ELSE "nil"
    /\ pc' = "done"
    /\ UNCHANGED <<entry, unlockRec, dev, ufs, auto, erase, log, clock, srvRecord,
                   progressOut, report, admVars, srvVars, certVars, cmdVars>>

NextMan ==
    \/ CallManOnlineUnlockFS
    \/ ManScan
    \/ ManCall
    \/ UnlockFind
    \/ UnlockOpen
    \/ UnlockMkdir
    \/ UnlockMount
    \/ UnlockCheck
    \/ UnlockEnd
    \/ ManUnlocked
    \/ ManEnd
    \/ Exit

SpecMan == InitClient /\ [][NextMan]_vars

\* C27: ManOnlineUnlockFS returns an error whenever UnlockFS failed for a
\* granted record, and nil only if every granted record was unlocked.
C27_ErrorWhenUnlockFails ==
    (entry = "ManOnlineUnlockFS" /\ pc = "done" /\ man.resp = "granted") =>
        (result = "nil" <=> ~man.unlockErr)

(***************************************************************************)
(* InitKeyServer from the question whether to (re)start: SpecInitServer    *)
(*                                                                         *)
(* initSrv.mainPID is what systemd reports as the main PID of the daemon   *)
(* (0: none); it changes as the daemon comes up, dies or is started again. *)
(***************************************************************************)
StartWaitSecs == 5
MonitorSecs == 3
DaemonPIDs == {41, 42}

InitInitServer ==
    /\ ServerIdle
    /\ CertIdle
    /\ ClientIdle
    /\ CommandsIdle
    /\ man = NoMan
    /\ ser = NoSer
    /\ \E p \in {0} \cup DaemonPIDs : initSrv = [NoInitSrv EXCEPT !.mainPID = p]

\* systemd and the daemon: the main PID appears, goes away or changes
DaemonChanges ==
    /\ initSrv.pc \in {"wait", "monitor"}
    /\ \E p \in ({0} \cup DaemonPIDs) \ {initSrv.mainPID} :
          initSrv' = [initSrv EXCEPT !.mainPID = p]
    /\ UNCHANGED <<man, ser, srvVars, certVars, cliVars, cmdVars>>

\* lines 222-236: the answer to the question, then SystemctlEnableRestart
InitServerStart ==
    /\ initSrv.pc = "idle"
    /\ \E start, restartOk \in BOOLEAN :
          initSrv' =
             IF ~start
             THEN [initSrv EXCEPT !.pc = "done", !.result = "nil", !.outcome = "not started"]
             ELSE IF ~restartOk
             THEN [initSrv EXCEPT !.pc = "done", !.result = "error",
                                  !.outcome = "restart failed"]
             ELSE [initSrv EXCEPT !.pc = "wait", !.i = 0]
    /\ UNCHANGED <<man, ser, srvVars, certVars, cliVars, cmdVars>>

\* lines 238-239, 248-252: the outer loop, and what follows it when no main
\* PID was seen in time
InitServerWait ==
    /\ initSrv.pc = "wait"
    /\ initSrv' =
          IF initSrv.i < StartWaitSecs
          THEN IF initSrv.mainPID # 0
               THEN [initSrv EXCEPT !.pc = "monitor", !.pid = initSrv.mainPID, !.j = 0]
               ELSE [initSrv EXCEPT !.i = @ + 1]
          ELSE [initSrv EXCEPT !.pc = "done", !.said = "Startup failed",
                               !.result = "nil", !.outcome = "never up"]
    /\ UNCHANGED <<man, ser, srvVars, certVars, cliVars, cmdVars>>

\* lines 241-247: the inner loop
InitServerMonitor ==
    /\ initSrv.pc = "monitor"
    /\ initSrv' =
          IF initSrv.j < MonitorSecs
          THEN IF initSrv.mainPID = 0
               THEN [initSrv EXCEPT !.pc = "done", !.result = "error",
                                    !.outcome = "went down"]
               ELSE [initSrv EXCEPT !.j = @ + 1]
          ELSE [initSrv EXCEPT !.pc = "done", !.said = "Key server is now running",
                               !.result = "nil", !.outcome = "stayed up"]
    /\ UNCHANGED <<man, ser, srvVars, certVars, cliVars, cmdVars>>

\* main.go 83-87: the process ends; the command may be run again
InitServerExit ==
    /\ initSrv.pc = "done"
    /\ initSrv' = [NoInitSrv EXCEPT !.mainPID = initSrv.mainPID]
    /\ UNCHANGED <<man, ser, srvVars, certVars, cliVars, cmdVars>>

NextInitServer ==
    \/ DaemonChanges
    \/ InitServerStart
    \/ InitServerWait
    \/ InitServerMonitor
    \/ InitServerExit

SpecInitServer == InitInitServer /\ [][NextInitServer]_vars

\* C26: InitKeyServer returns an error whenever the daemon it (re)started
\* went down while it was monitored or never had a main PID during the
\* wait, and returns nil after a (re)start only if the daemon had a main
\* PID at every look of the monitoring.
C26_ErrorUnlessRunning ==
    initSrv.pc = "done" =>
        /\ initSrv.outcome \in {"went down", "never up"} => initSrv.result = "error"
        /\ (initSrv.result = "nil" /\ initSrv.outcome # "not started")
              => initSrv.outcome = "stayed up"

(***************************************************************************)
(* GetNextSerial called by concurrent processes: SpecSerial                *)
(*                                                                         *)
(* ser.file is the content of CERT_DIR/serial, ser.holder the process that *)
(* has the exclusive flock on it, ser.issued the serials returned so far   *)
(* in the order they were written, ser.file0 the content at the start.     *)
(***************************************************************************)
MaxSerialCalls == 4
SerialCallers == {"p1", "p2"}

\* GenerateSelfSignedCaCert 54: the file as the CA set-up writes it, as it is
\* after some certificates, and two files no serial can be read from (empty;
\* a number followed by a line feed)
SerialFiles == {FormatInt(1), FormatInt(9), FormatInt(99), <<>>, <<"7", "\n">>}

\* file.Seek(0, 0) and file.Write(text) on a file opened without O_TRUNC
WriteAtStart(content, text) ==
    text \o SubSeq(content, Len(text) + 1, Len(content))

\* mutant: the lock is granted whoever holds it
FlockGrantedAlways(holder) == TRUE

\* line 31: syscall.Flock(fd, LOCK_EX) returns once no other open file
\* description holds the lock
FlockGranted(holder) == holder = "none"

InitSerial ==
    /\ ServerIdle
    /\ CertIdle
    /\ ClientIdle
    /\ CommandsIdle
    /\ man = NoMan
    /\ initSrv = NoInitSrv
    /\ \E f \in SerialFiles :
          ser = [NoSer EXCEPT !.file = f, !.file0 = f,
                              !.procs = [p \in SerialCallers |-> NoCaller]]

\* lines 24-30: os.OpenFile
SerialOpen(p) ==
    /\ ser.procs[p].pc = "idle"
    /\ ser.calls < MaxSerialCalls
    /\ \E ok \in BOOLEAN :
          ser' = [ser EXCEPT !.calls = @ + 1,
                             !.procs[p] = IF ok THEN [NoCaller EXCEPT !.pc = "opened"]
                                          ELSE [NoCaller EXCEPT !.pc = "returned",
                                                                !.err = "open"]]
    /\ UNCHANGED <<man, initSrv, srvVars, certVars, cliVars, cmdVars>>

\* lines 31-33: syscall.Flock
SerialFlock(p) ==
    /\ ser.procs[p].pc = "opened"
    /\ \/ /\ FlockGranted(ser.holder)
          /\ ser' = [ser EXCEPT !.holder = p, !.procs[p].pc = "locked"]
       \/ ser' = [ser EXCEPT !.procs[p].pc = "closing", !.procs[p].err = "flock"]
    /\ UNCHANGED <<man, initSrv, srvVars, certVars, cliVars, cmdVars>>

\* lines 34-37: file.Read; the end of an empty file is an error
SerialRead(p) ==
    /\ ser.procs[p].pc = "locked"
    /\ \E ok \in BOOLEAN :
          IF ok /\ ser.file # <<>>
          THEN ser' = [ser EXCEPT !.procs[p].pc = "read", !.procs[p].data = ser.file]
          ELSE ser' = [ser EXCEPT !.procs[p].pc = "closing", !.procs[p].err = "read"]
    /\ UNCHANGED <<man, initSrv, srvVars, certVars, cliVars, cmdVars>>

\* lines 38-47: ParseInt, serial++, Seek, Write; a Write that fails is taken
\* to have written nothing
SerialWrite(p) ==
    /\ ser.procs[p].pc = "read"
    /\ LET parsed == ParseInt(ser.procs[p].data)
           serial == parsed.value + 1
       IN IF parsed.err
          THEN ser' = [ser EXCEPT !.procs[p].pc = "closing", !.procs[p].err = "parse"]
          ELSE \E ok \in BOOLEAN :
                  IF ok
                  THEN ser' = [ser EXCEPT !.file = WriteAtStart(@, FormatInt(serial)),
                                          !.issued = Append(@, serial),
                                          !.procs[p].pc = "closing",
                                          !.procs[p].serial = serial]
                  ELSE ser' = [ser EXCEPT !.procs[p].pc = "closing",
                                          !.procs[p].err = "write"]
    /\ UNCHANGED <<man, initSrv, srvVars, certVars, cliVars, cmdVars>>

\* line 30: the deferred file.Close gives the lock up as the function returns
SerialClose(p) ==
    /\ ser.procs[p].pc = "closing"
    /\ ser' = [ser EXCEPT !.holder = IF @ = p THEN "none" ELSE @,
                          !.procs[p].pc = "returned"]
    /\ UNCHANGED <<man, initSrv, srvVars, certVars, cliVars, cmdVars>>

\* GenerateCertificate 141-148: the process goes on with the serial, or
\* exits; another certificate may be asked for
SerialNext(p) ==
    /\ ser.procs[p].pc = "returned"
    /\ ser.calls < MaxSerialCalls
    /\ ser' = [ser EXCEPT !.procs[p] = NoCaller]
    /\ UNCHANGED <<man, initSrv, srvVars, certVars, cliVars, cmdVars>>

NextSerial ==
    \E p \in SerialCallers :
        \/ SerialOpen(p)
        \/ SerialFlock(p)
        \/ SerialRead(p)
        \/ SerialWrite(p)
        \/ SerialClose(p)
        \/ SerialNext(p)

SpecSerial == InitSerial /\ [][NextSerial]_vars

\* C30: the serials GetNextSerial returns are strictly increasing, each the
\* value stored before plus one, none of them the serial 1 of the CA; the
\* file holds exactly the last serial returned, and as long as every call
\* has failed the file is as it was.
C30_SerialsUniqueAndIncreasing ==
    /\ \A i, j \in DOMAIN ser.issued : i < j => ser.issued[i] < ser.issued[j]
    /\ \A i \in DOMAIN ser.issued :
          /\ ser.issued[i] # 1
          /\ ser.issued[i] = ParseInt(ser.file0).value + i
    /\ IF ser.issued = <<>>
       THEN ser.file = ser.file0
       ELSE ser.file = FormatInt(ser.issued[Len(ser.issued)])

\* C30 witness: the file held 9; two processes called GetNextSerial, one
\* got 10 and the other 11, and the file holds 11.
C30_Witness ==
    /\ ser.file0 = <<"9">>
    /\ ser.procs["p1"].serial = 10
    /\ ser.procs["p2"].serial = 11
    /\ ser.file = <<"1", "1">>
    /\ ser.calls = 2

(***************************************************************************)
(* add-allowed-client and remove-allowed-client with the flags -deviceID   *)
(* and -allowedClients: specification SpecFlags                            *)
(*                                                                         *)
(* The value of -allowedClients is a text, a sequence of characters; the   *)
(* client names are the pieces between its commas. opr.row holds the       *)
(* names the loop has still to go through, opr.out the calls of            *)
(* AddAllowedClient made so far as pairs of device ID and client name.     *)
(***************************************************************************)
MaxFlagLen == 3
FlagChars == {"a", ","}
FlagTexts == SeqsUpTo(FlagChars, MaxFlagLen)
DeviceIDs == {"", TheUUID}

\* strings.Split(text, ","): the pieces between the commas, empty pieces
\* included; one empty piece for the empty text
RECURSIVE Split(_)
Split(text) ==
    IF \A i \in DOMAIN text : text[i] # ","
    THEN <<text>>
    ELSE LET k == CHOOSE i \in DOMAIN text :
                      text[i] = "," /\ \A j \in 1..(i - 1) : text[j] # ","
         IN <<SubSeq(text, 1, k - 1)>> \o Split(SubSeq(text, k + 1, Len(text)))

\* part_000 161, 171: the test that leads to the usage error
FlagsMissing(deviceID, allowedClients) == deviceID = "" /\ allowedClients = <<>>

InitFlags ==
    /\ ServerIdle
    /\ CertIdle
    /\ ClientIdle
    /\ AdmIdle
    /\ cmdNow = 0
    /\ \E clients \in {<<>>, << <<"a">> >>, << <<"a", "a">>, <<"a">> >>} :
          disk = [FreshRecord EXCEPT !.AllowedClients = clients]
    /\ mem = disk
    /\ ideal = disk
    /\ opr = NoOperator
    /\ delivered = [id \in CmdIds |-> 0]
    /\ running \in BOOLEAN

\* part_000 160-164, 170-174: the command is run, once, on the record file
\* as it is
FlagsStart(cmd, deviceID, allowedClients) ==
    /\ opr.pc = "idle"
    /\ opr.kind = "none"
    /\ opr' = IF FlagsMissing(deviceID, allowedClients)
              THEN [NoOperator EXCEPT !.kind = cmd, !.arg = deviceID,
                                      !.text = allowedClients, !.rec = disk,
                                      !.err = "usage"]
              ELSE [NoOperator EXCEPT !.kind = cmd, !.arg = deviceID,
                                      !.text = allowedClients, !.rec = disk,
                                      !.pc = "clients", !.row = Split(allowedClients)]
    /\ UNCHANGED <<cmdNow, disk, mem, ideal, delivered, running,
                   srvVars, certVars, admVars, cliVars>>

\* part_000 164-168, 174-178: one turn of the loop over the client names, or
\* its end
FlagsNextClient ==
    /\ opr.pc = "clients"
    /\ IF opr.row = <<>>
       THEN /\ opr' = [opr EXCEPT !.pc = "idle"]
            /\ UNCHANGED <<disk, mem>>
       ELSE \E upsertOk, restartOk \in BOOLEAN :
               LET client == Head(opr.row)
                   r == CASE MainCalls(opr.kind) = "AddAllowedClient" ->
                               AddAllowedClient(disk, mem, opr.arg, client, upsertOk,
                                                restartOk, running)
               IN /\ disk' = r.file
                  /\ mem' = r.view
                  /\ opr' = [opr EXCEPT !.out = Append(@, <<opr.arg, client>>),
                                        !.row = Tail(@),
                                        !.err = r.err,
                                        !.wrote = @ \/ r.wrote,
                                        !.pc = IF r.err = "nil" THEN "clients" ELSE "idle"]
    /\ ideal' = disk'
    /\ UNCHANGED <<cmdNow, delivered, running, srvVars, certVars, admVars, cliVars>>

NextFlags ==
    \/ \E cmd \in AllowCommands, deviceID \in DeviceIDs, allowedClients \in FlagTexts :
          FlagsStart(cmd, deviceID, allowedClients)
    \/ FlagsNextClient

SpecFlags == InitFlags /\ [][NextFlags]_vars

\* C31: add-allowed-client and remove-allowed-client end with the usage
\* error, with the record as it was, whenever the device ID or the client
\* name is empty, and AddAllowedClient is never called with an empty UUID
\* or an empty client name.
C31_UsageErrorWhenMissing ==
    opr.kind \in AllowCommands =>
        /\ (/\ opr.pc = "idle"
            /\ \/ opr.arg = ""
               \/ \E i \in DOMAIN Split(opr.text) : Split(opr.text)[i] = <<>>)
              => opr.err = "usage" /\ disk = opr.rec /\ opr.out = <<>>
        /\ \A i \in DOMAIN opr.out : opr.out[i][1] # "" /\ opr.out[i][2] # <<>>

(***************************************************************************)
(* InitKeyServer up to the saving of the configuration: SpecInitPassword   *)
(*                                                                         *)
(* initSrv.file holds PASSWORD_SALT and PASSWORD_HASH of the configuration *)
(* file, initSrv.conf those of sysconf in memory, initSrv.file0 the file   *)
(* as the command found it. A password is a sequence of characters; a      *)
(* character takes one byte or, outside ASCII, two in the string that      *)
(* sys.InputPassword returns.                                              *)
(***************************************************************************)
MIN_PASSWORD_LEN == 10
MaxAsked == 3

Repeat(c, n) == [i \in 1..n |-> c]

\* what the operator may type: nothing, nine and ten ASCII characters, ten
\* other ones, five and ten characters outside ASCII
TypedPasswords ==
    {<<>>, Repeat("a", 9), Repeat("a", 10), Repeat("b", 10), Repeat("U+00E4", 5), Repeat("U+00E4", 10)}

\* sys.InputPassword(mandatory, ...): a mandatory password is not blank
InputPassword(mandatory) == IF mandatory THEN TypedPasswords \ {<<>>} ELSE TypedPasswords

\* UTF-8: bytes of one character
ByteWidth(c) == IF c \in {"a", "b"} THEN 1 ELSE 2

\* len(pwd) of a Go string: its bytes
RECURSIVE ByteLen(_)
ByteLen(pwd) == IF pwd = <<>> THEN 0 ELSE ByteWidth(Head(pwd)) + ByteLen(Tail(pwd))

\* line 45
TooShort(pwd) == ByteLen(pwd) # 0 /\ ByteLen(pwd) < MIN_PASSWORD_LEN

\* hex.EncodeToString
HexEncode(bytes) == <<"hex", bytes>>

\* keyserv.NewSalt(): random bytes, not those of the salt in use
NewSalt(old) == IF old = HexEncode("salt1") THEN "salt2" ELSE "salt1"

ExistingConf ==
    [salt |-> HexEncode("salt1"),
     hash |-> HexEncode(HashPassword("salt1", Repeat("b", 10)))]

InitInitPassword ==
    /\ ServerIdle
    /\ CertIdle
    /\ ClientIdle
    /\ CommandsIdle
    /\ man = NoMan
    /\ ser = NoSer
    /\ \E f \in {NoConf, ExistingConf} :
          initSrv = [NoInitSrv EXCEPT !.file = f, !.file0 = f]

\* lines 20-35: read the configuration; decline or go on
PasswordStart ==
    /\ initSrv.pc = "idle"
    /\ LET reconfigure == initSrv.file.hash # <<>>
       IN \E again \in BOOLEAN :
             initSrv' =
                IF reconfigure /\ ~again
                THEN [initSrv EXCEPT !.pc = "done", !.conf = initSrv.file,
                                     !.reconfigure = TRUE, !.result = "nil",
                                     !.outcome = "declined"]
                ELSE [initSrv EXCEPT !.pc = "pwd", !.conf = initSrv.file,
                                     !.reconfigure = reconfigure]
    /\ UNCHANGED <<man, ser, srvVars, certVars, cliVars, cmdVars>>

\* lines 43-48: the password is asked for; one that is too short is asked
\* for again
PasswordEnter ==
    /\ initSrv.pc = "pwd"
    /\ initSrv.asked < MaxAsked
    /\ \E typed \in InputPassword(~initSrv.reconfigure) :
          initSrv' = [initSrv EXCEPT !.pwd = typed, !.asked = @ + 1,
                                     !.pc = IF TooShort(typed) THEN "pwd" ELSE "confirm"]
    /\ UNCHANGED <<man, ser, srvVars, certVars, cliVars, cmdVars>>

\* lines 49-57: the confirmation; if it differs the password is asked for again
PasswordConfirm ==
    /\ initSrv.pc = "confirm"
    /\ \E typed \in InputPassword(~initSrv.reconfigure) :
          initSrv' = [initSrv EXCEPT !.confirmPwd = typed,
                                     !.pc = IF typed = initSrv.pwd THEN "set" ELSE "pwd"]
    /\ UNCHANGED <<man, ser, srvVars, certVars, cliVars, cmdVars>>

\* lines 59-64: a password that is not blank gets a new salt and its hash
PasswordSet ==
    /\ initSrv.pc = "set"
    /\ initSrv' =
          IF initSrv.pwd # <<>>
          THEN LET newSalt == NewSalt(initSrv.conf.salt)
               IN [initSrv EXCEPT !.pc = "save",
                                  !.conf = [salt |-> HexEncode(newSalt),
                                            hash |-> HexEncode(HashPassword(newSalt,
                                                                            initSrv.pwd))]]
          ELSE [initSrv EXCEPT !.pc = "save"]
    /\ UNCHANGED <<man, ser, srvVars, certVars, cliVars, cmdVars>>

\* lines 65-220: the other questions, which may end the command with an
\* error (lines 93, 117, 121), then ioutil.WriteFile of sysconf
PasswordSave ==
    /\ initSrv.pc = "save"
    /\ \E restOk, writeOk \in BOOLEAN :
          initSrv' =
             IF restOk /\ writeOk
             THEN [initSrv EXCEPT !.pc = "done", !.file = initSrv.conf,
                                  !.result = "nil", !.outcome = "saved"]
             ELSE [initSrv EXCEPT !.pc = "done", !.result = "error",
                                  !.outcome = "not saved"]
    /\ UNCHANGED <<man, ser, srvVars, certVars, cliVars, cmdVars>>

NextInitPassword ==
    \/ PasswordStart
    \/ PasswordEnter
    \/ PasswordConfirm
    \/ PasswordSet
    \/ PasswordSave

SpecInitPassword == InitInitPassword /\ [][NextInitPassword]_vars

\* the salt and the hash of the file are those found, or a new salt and the
\* hash of the confirmed password under it
SaltAndHashTogether ==
    \/ initSrv.file = initSrv.file0
    \/ /\ initSrv.file.salt # initSrv.file0.salt
       /\ \E salt \in {"salt1", "salt2"} :
             /\ initSrv.file.salt = HexEncode(salt)
             /\ initSrv.file.hash = HexEncode(HashPassword(salt, initSrv.pwd))
       /\ initSrv.confirmPwd = initSrv.pwd

\* what holds of every run: a password that was stored is one of at least
\* MIN_PASSWORD_LEN bytes, and only a saving run changes the file
SavedPasswordLongEnoughInBytes ==
    /\ SaltAndHashTogether
    /\ initSrv.file # initSrv.file0 => ByteLen(initSrv.pwd) >= MIN_PASSWORD_LEN
    /\ (initSrv.outcome = "saved" /\ initSrv.pwd = <<>>) => initSrv.file = initSrv.file0
    /\ initSrv.outcome \in {"declined", "not saved"} => initSrv.file = initSrv.file0

\* C32: after InitKeyServer has saved the configuration, PASSWORD_SALT and
\* PASSWORD_HASH are both as they were (blank password) or both new, the
\* hash that of a password of at least MIN_PASSWORD_LEN characters that was
\* typed the same twice; after declining the configuration is as it was.
C32_SaltAndHashConsistent ==
    /\ initSrv.outcome = "saved" =>
          /\ SaltAndHashTogether
          /\ initSrv.pwd = <<>> => initSrv.file = initSrv.file0
          /\ initSrv.file # initSrv.file0 => Len(initSrv.pwd) >= MIN_PASSWORD_LEN
    /\ initSrv.outcome = "declined" => initSrv.file = initSrv.file0

====
